---- MODULE Spec2Model ----
(***************************************************************************)
(* Inko: collaborative canvas.  The authoritative operation log of the     *)
(* server (server/Room.js, server/server.js) and the mirror every client   *)
(* keeps of it (client/js/state.js, client/js/websocket.js).               *)
(*                                                                         *)
(* The server is single threaded: every websocket handler runs to          *)
(* completion, so each handler is one action.  A message of the server to  *)
(* a client travels in that client's FIFO channel (outbox) and is          *)
(* processed by the client's handleMessage in a later step.                *)
(***************************************************************************)
EXTENDS Integers, Sequences, FiniteSets, TLC

(* ------------------------------ bounds --------------------------------- *)
\* Retained-history cap.  The program value is 5000 (constants.js); the
\* model keeps the cap's role with a small value so that trimming happens.
MAX_OPERATIONS == 3
\* Commits explored per behaviour (cap on sequenceCounter).
MaxCommits == 5
\* Messages in flight to one client.
MaxOutbox == 1
\* The same two bounds for the behaviours with several clients.
MaxSyncCommits == 3
MaxSyncOutbox == 1
\* Commits per behaviour with in-flight strokes and relays, and messages in
\* flight to all clients together.
MaxRelayCommits == 1
MaxRelayOutbox == 1
\* Messages in flight to one client while participants come and go.
MaxLobbyOutbox == 1
\* Commits and messages in flight while two participants commit.
MaxRaceCommits == 3
MaxRaceOutbox == 1
\* Commits and messages in flight while strokes are started and abandoned.
MaxStrokeCommits == 2
MaxStrokeOutbox == 1
\* Commits and messages in flight for the mirror with staged entries.
MaxMirrorCommits == 3
MaxMirrorOutbox == 1
\* Commits and messages in flight to all clients while staged entries are
\* confirmed.
MaxConfirmCommits == 3
MaxConfirmOutbox == 1
\* Appends explored when the two truncations run side by side.
MaxTwinCommits == 5
\* Checkpoint distance.  The program value is 20 (client constants.js); the
\* model keeps its role with a small value so that checkpoints are taken.
CHECKPOINT_INTERVAL == 2
\* Commits and messages in flight for the client with a canvas.
MaxCanvasCommits == 8
MaxCanvasOutbox == 1
\* Largest checkpoint position in the caches looked up.
MaxCachePointer == 4
\* Messages in flight to all clients while two participants stream strokes.
MaxShareOutbox == 1
\* Commits, and messages in flight to all clients, while participants join
\* a room whose log is changing.
MaxJoinCommits == 2
MaxJoinOutbox == 2
\* Commits, and messages in flight to all clients, while strokes of several
\* kinds are ended.
MaxEndCommits == 2
MaxEndOutbox == 1
\* Commits, and messages in flight, while one participant draws, clears and
\* moves the pointer.
MaxClearCommits == 4
MaxClearOutbox == 1
\* Commits, and messages in flight, while one participant finalizes strokes
\* with every tool of its toolbar.
MaxToolCommits == 2
MaxToolOutbox == 2
\* The strokes the state module of a client is given, each as a staged entry
\* and as a committed operation.
MaxStateStrokes == 2
MaxRedeliverStrokes == 3
MaxRedeliverDrawn == 3
MaxSockets == 3
MaxSocketSends == 3
MaxReconnectSockets == 8
MaxReconnectSends == 1
\* Messages in flight to all clients while participants rename themselves.
MaxNameOutbox == 2

\* Connections: each is one client and, while open, one participant.
Clients == {"c1", "c2", "c3"}
Solo == "c1"
Peer == "c2"
Pair == {Solo, Peer}

VARIABLES
    room,        \* server Room: operations, pointer, sequenceCounter, users
    idCounter,   \* number of ids handed out by generateId (crypto.randomUUID)
    outbox,      \* outbox[c]: messages sent to c's socket, not yet handled by c
    resync,      \* resync[c]: a STATE_SYNC request of c is on its way to the server
    state,       \* state[c]: mirror of client c (operations, pointer, users,
                 \* optimisticOperations)
    activeStrokes, \* activeStrokes[c]: in-flight strokes of c's connection
    colorPool,   \* server colorPool: display colors not in use
    user,        \* user[c]: the participant object of c's connection
    issued,      \* history: sequence numbers returned by getNextSequence, in order
    discarded,   \* history: ids of operations removed by truncateFutureOperations
    recent,      \* history: the last server mutations (kind, operation id, visible count before)
    canvas,      \* canvas[c]: the drawing surface of client c, the pointer it
                 \* renders and the checkpoints taken of it (where a canvas
                 \* listens to the mirror)
    verdict,     \* the calls of validateOperationPayload made on their own:
                 \* type, data and, once it returned, the result
    websocket    \* client/js/websocket.js of one client: socket, reconnectAttempt,
                 \* isConnecting, outboundQueue; the sockets it made, the
                 \* timers it set and what it transmitted

vars == <<room, idCounter, outbox, resync, state, activeStrokes, colorPool, user,
          issued, discarded, recent, canvas, verdict, websocket>>

(* ------------------------------ helpers -------------------------------- *)
Max(a, b) == IF a >= b THEN a ELSE b
Min(a, b) == IF a <= b THEN a ELSE b

\* Array.prototype.slice(0, n) / splice(n): the first n elements.
Take(s, n) == SubSeq(s, 1, Min(Max(n, 0), Len(s)))
\* Array.prototype.splice(0, n) result left in the array: all but the first n.
Drop(s, n) == SubSeq(s, Min(Max(n, 0), Len(s)) + 1, Len(s))

Ids(s) == {s[i].id : i \in 1..Len(s)}

(* --------------------------- server/Room.js ---------------------------- *)
\* new Room(): constructor.
NewRoom == [operations |-> <<>>, pointer |-> -1, sequenceCounter |-> 0, users |-> {}]

\* Mutant of BumpSequence: the counter restarts from the length of the kept log.
BumpSequenceRewound(r) ==
    [r EXCEPT !.sequenceCounter =
        (IF r.pointer < Len(r.operations) - 1 THEN r.pointer + 1 ELSE @) + 1]
\* getNextSequence(): "this.sequenceCounter += 1".
BumpSequence(r) == [r EXCEPT !.sequenceCounter = @ + 1]
\* Mutant of NextSequenceValue: the number is the log length.
NextSequenceValueFromLength(r) == Len(r.operations)
\* getNextSequence(): "return this.sequenceCounter - 1", read after the increment.
NextSequenceValue(r) == BumpSequence(r).sequenceCounter - 1

\* Mutant of AddUser: the map is started afresh with the newcomer.
AddUserAlone(r, u) == [r EXCEPT !.users = {u}]
\* addUser / removeUser on the users map (keyed by user id).
AddUser(r, u) == [r EXCEPT !.users = @ \cup {u}]
\* Mutant of RemoveUser: the shared pointer is rewound when somebody leaves.
RemoveUserRewinding(r, u) == [r EXCEPT !.users = @ \ {u}, !.pointer = -1]
RemoveUser(r, u) == [r EXCEPT !.users = @ \ {u}]

\* Mutant of TrimHistoryIfNeeded: the pointer is left where it was.
TrimHistoryKeepPointer(r) ==
    IF Len(r.operations) <= MAX_OPERATIONS THEN r
    ELSE [r EXCEPT !.operations = Drop(@, Len(r.operations) - MAX_OPERATIONS)]
\* Mutant of TrimHistoryIfNeeded: the newest operations are dropped.
TrimHistoryFromTail(r) ==
    IF Len(r.operations) <= MAX_OPERATIONS THEN r
    ELSE LET overflow == Len(r.operations) - MAX_OPERATIONS
         IN [r EXCEPT !.operations = Take(@, MAX_OPERATIONS),
                      !.pointer = Max(-1, @ - overflow)]
TrimHistoryIfNeeded(r) ==
    IF Len(r.operations) <= MAX_OPERATIONS THEN r
    ELSE LET overflow == Len(r.operations) - MAX_OPERATIONS
         IN [r EXCEPT !.operations = Drop(@, overflow),
                      !.pointer = Max(-1, @ - overflow)]

\* Mutant of TruncateFutureOperations: the cut is one position late.
TruncateFutureOffByOne(r) ==
    LET cutoff == r.pointer + 1
    IN  IF cutoff <= 0 /\ r.pointer < 0
        THEN (IF Len(r.operations) > 0 THEN [r EXCEPT !.operations = <<>>] ELSE r)
        ELSE IF cutoff >= Len(r.operations) THEN r
        ELSE [r EXCEPT !.operations = Take(@, cutoff + 1)]
TruncateFutureOperations(r) ==
    LET cutoff == r.pointer + 1
    IN  IF cutoff <= 0 /\ r.pointer < 0
        THEN (IF Len(r.operations) > 0 THEN [r EXCEPT !.operations = <<>>] ELSE r)
        ELSE IF cutoff >= Len(r.operations) THEN r
        ELSE [r EXCEPT !.operations = Take(@, cutoff)]

\* Mutant of CutFuture: the append never truncates.
CutFutureSkipped(r) == r
\* appendOperation, first statement: the future branch is cut when the
\* pointer is behind the tail.
CutFuture(r) ==
    IF r.pointer < Len(r.operations) - 1 THEN TruncateFutureOperations(r) ELSE r

\* Mutant of PushOperation: the new operation takes the place of the last one.
PushOperationOverwriting(r, op) ==
    LET ops == IF Len(r.operations) = 0 THEN <<op>>
               ELSE [r.operations EXCEPT ![Len(r.operations)] = op]
    IN  [r EXCEPT !.operations = ops, !.pointer = Len(ops) - 1]
\* appendOperation, second and third statement: push, pointer to the end.
PushOperation(r, op) ==
    LET ops == Append(r.operations, op)
    IN  [r EXCEPT !.operations = ops, !.pointer = Len(ops) - 1]

AppendOperation(r, op) == TrimHistoryIfNeeded(PushOperation(CutFuture(r), op))

\* Mutant of BuildOperation: the clientOperationId is not stored.
BuildOperationUnkeyed(r, id, userId, type, data, clientOperationId) ==
    [id |-> id, userId |-> userId, sequenceNumber |-> NextSequenceValue(r),
     type |-> type, data |-> data, clientOperationId |-> ""]
\* utils.buildOperation as Room.buildOperation calls it: a fresh id
\* (generateId) and the sequence number of getNextSequence; the payload is
\* stored as given.  The timestamp is not read by any code and left out.
BuildOperation(r, id, userId, type, data, clientOperationId) ==
    [id |-> id, userId |-> userId, sequenceNumber |-> NextSequenceValue(r),
     type |-> type, data |-> data, clientOperationId |-> clientOperationId]

\* Mutant of SetPointer: the lower clamp is 0.
SetPointerFloorZero(r, value) ==
    [r EXCEPT !.pointer = Max(0, Min(value, Len(r.operations) - 1))]
SetPointer(r, value) ==
    [r EXCEPT !.pointer = Max(-1, Min(value, Len(r.operations) - 1))]

\* Mutant of Undo: the undone operation is popped off the log.
UndoPopping(r) ==
    [r EXCEPT !.pointer = Max(-1, Min(r.pointer - 1, Len(r.operations) - 1)),
              !.operations = Take(@, Len(@) - 1)]
Undo(r) == SetPointer(r, r.pointer - 1)
Redo(r) == SetPointer(r, r.pointer + 1)

\* Mutant of GetStateSnapshot: the whole log is sent.
GetStateSnapshotWholeLog(r) ==
    [operations |-> r.operations, pointer |-> r.pointer, users |-> r.users]
GetStateSnapshot(r) ==
    [operations |-> IF r.pointer < 0 THEN <<>> ELSE Take(r.operations, r.pointer + 1),
     pointer |-> r.pointer,
     users |-> r.users]

(* ------------------ server/utils.js, server/operations.js -------------- *)
\* The data of an operation whose payload no code under test reads.
NoPayload == [path |-> <<>>, color |-> <<>>, width |-> 0, tool |-> ""]

\* A message's data object is a record of the fields the handlers read:
\* clientOperationId, point, points, path, color, tool, width.  A point is
\* <<x, y>>, a color a sequence of characters.  A field that is absent (or
\* falsy) has the falsy value of its kind: "", <<>>, 0.

\* constants.js of the server: the coordinate bound.
MIN_COORDINATE == 0
MAX_COORDINATE == 10000

TOOLS == {"brush", "eraser"}
HexDigits == {"0", "1", "2", "3", "4", "5", "6", "7", "8", "9",
              "a", "b", "c", "d", "e", "f", "A", "B", "C", "D", "E", "F"}

ValidateCoordinate(value) == value >= MIN_COORDINATE /\ value <= MAX_COORDINATE

\* Mutant of ValidateColor: three to six digits.
ValidateColorAnyLength(color) ==
    /\ Len(color) \in 4..7
    /\ color[1] = "#"
    /\ \A i \in 2..Len(color) : color[i] \in HexDigits
\* /^#([0-9a-f]{3}){1,2}$/i
ValidateColor(color) ==
    /\ Len(color) \in {4, 7}
    /\ color[1] = "#"
    /\ \A i \in 2..Len(color) : color[i] \in HexDigits

EnsurePoint(point) ==
    /\ point # <<>>
    /\ ValidateCoordinate(point[1])
    /\ ValidateCoordinate(point[2])

ValidatePointsArray(points) ==
    Len(points) > 0 /\ \A i \in 1..Len(points) : EnsurePoint(points[i])

ValidateWidth(width) == width >= 1 /\ width <= 20

ValidateTool(tool) == tool \in TOOLS

Valid == [valid |-> TRUE, error |-> ""]
Invalid(error) == [valid |-> FALSE, error |-> error]

\* Mutant of ValidateOperationPayload: only the clientOperationId is checked.
ValidateIdOnly(type, data) ==
    CASE type \in {"DRAW_START", "DRAW_MOVE", "DRAW_END"} ->
            IF data.clientOperationId = "" THEN Invalid("Missing clientOperationId")
            ELSE Valid
      [] type = "CLEAR" -> Valid
      [] OTHER -> Invalid("Unsupported message type")
ValidateOperationPayload(type, data) ==
    CASE type = "DRAW_START" ->
            IF data.clientOperationId = "" THEN Invalid("Missing clientOperationId")
            ELSE IF ~EnsurePoint(data.point) THEN Invalid("Invalid start point")
            ELSE IF ~ValidateColor(data.color) THEN Invalid("Invalid color")
            ELSE IF ~ValidateTool(data.tool) THEN Invalid("Invalid tool")
            ELSE IF ~ValidateWidth(data.width) THEN Invalid("Invalid stroke width")
            ELSE Valid
      [] type = "DRAW_MOVE" ->
            IF data.clientOperationId = "" THEN Invalid("Missing clientOperationId")
            ELSE IF ~ValidatePointsArray(data.points) THEN Invalid("Invalid points batch")
            ELSE Valid
      [] type = "DRAW_END" ->
            IF data.clientOperationId = "" THEN Invalid("Missing clientOperationId")
            ELSE IF ~ValidatePointsArray(data.path) THEN Invalid("Invalid path")
            ELSE IF ~ValidateColor(data.color) THEN Invalid("Invalid color")
            ELSE IF ~ValidateTool(data.tool) THEN Invalid("Invalid tool")
            ELSE IF ~ValidateWidth(data.width) THEN Invalid("Invalid stroke width")
            ELSE Valid
      [] type = "CLEAR" -> Valid
      [] OTHER -> Invalid("Unsupported message type")

(* ------------------------- client/js/state.js -------------------------- *)
\* The mirror of one client: operations, pointer, the participant list and
\* the table of staged entries (a Map keyed by clientOperationId, held as the
\* set of its values: the key of an entry is its clientOperationId).
NewState == [operations |-> <<>>, pointer |-> -1, users |-> {},
             optimisticOperations |-> {}]

ClampPointer(st, value) == Max(-1, Min(value, Len(st.operations) - 1))

\* truncateFutureHistory, after the cut: staged entries whose key no kept
\* operation carries leave the table.
PruneOptimistic(st) ==
    LET remaining == {st.operations[i].clientOperationId : i \in 1..Len(st.operations)}
                        \ {""}
    IN  [st EXCEPT !.optimisticOperations =
            {e \in @ : e.clientOperationId \in remaining}]

\* Mutant of TruncateFutureHistory: the operation after the pointer is kept.
TruncateFutureHistoryLate(st) ==
    LET cutoff == st.pointer + 2
    IN  IF cutoff < Len(st.operations)
        THEN PruneOptimistic([st EXCEPT !.operations = Take(@, cutoff)])
        ELSE st
TruncateFutureHistory(st) ==
    LET cutoff == st.pointer + 1
    IN  IF cutoff <= 0 /\ st.pointer < 0
        THEN (IF Len(st.operations) = 0 THEN st
              ELSE PruneOptimistic([st EXCEPT !.operations = <<>>]))
        ELSE IF cutoff < Len(st.operations)
        THEN PruneOptimistic([st EXCEPT !.operations = Take(@, cutoff)])
        ELSE st

\* setPointer(value, {silent}): silent only suppresses the event; the
\* stored pointer is the clamped value in both cases.
ClientSetPointer(st, value) == [st EXCEPT !.pointer = ClampPointer(st, value)]

\* Mutant of ResetHistory: the table of staged entries is not cleared.
ResetHistoryKeepingStaged(st) == [st EXCEPT !.operations = <<>>, !.pointer = -1]
ResetHistory(st) ==
    [st EXCEPT !.operations = <<>>, !.pointer = -1, !.optimisticOperations = {}]

ClientTrimHistoryIfNeeded(st) ==
    IF Len(st.operations) <= MAX_OPERATIONS THEN st
    ELSE LET overflow == Len(st.operations) - MAX_OPERATIONS
         IN [st EXCEPT !.operations = Drop(@, overflow),
                       !.pointer = Max(-1, @ - overflow)]

\* Mutant of FindIndexById: no entry is ever found.
FindIndexByIdBlind(ops, id) == 0
\* findIndex((op) => op.id === operation.id): 0 when absent (1-based here).
FindIndexById(ops, id) ==
    IF \E i \in 1..Len(ops) : ops[i].id = id
    THEN CHOOSE i \in 1..Len(ops) :
            ops[i].id = id /\ \A j \in 1..(i - 1) : ops[j].id # id
    ELSE 0

\* optimisticOperations.set(key, operation)
OptimisticSet(table, operation) ==
    {e \in table : e.clientOperationId # operation.clientOperationId} \cup {operation}

\* Mutant of AddOperation: the pointer moves to the end for a staged entry too.
AddOperationAdvancing(st, operation, optimistic) ==
    LET existingIndex == FindIndexById(st.operations, operation.id)
    IN  IF existingIndex >= 1
        THEN [st EXCEPT !.operations[existingIndex] = operation]
        ELSE LET cut == IF st.pointer < Len(st.operations) - 1
                        THEN TruncateFutureHistory(st) ELSE st
                 pushed == [cut EXCEPT !.operations = Append(@, operation)]
                 moved == ClientSetPointer(pushed, Len(pushed.operations) - 1)
                 staged == IF optimistic /\ operation.clientOperationId # ""
                           THEN [moved EXCEPT !.optimisticOperations =
                                                  OptimisticSet(@, operation)]
                           ELSE moved
             IN  ClientTrimHistoryIfNeeded(staged)
\* addOperation(operation, {optimistic})
AddOperation(st, operation, optimistic) ==
    LET existingIndex == FindIndexById(st.operations, operation.id)
    IN  IF existingIndex >= 1
        THEN [st EXCEPT !.operations[existingIndex] = operation]
        ELSE LET cut == IF st.pointer < Len(st.operations) - 1
                        THEN TruncateFutureHistory(st) ELSE st
                 pushed == [cut EXCEPT !.operations = Append(@, operation)]
                 moved == IF ~optimistic
                          THEN ClientSetPointer(pushed, Len(pushed.operations) - 1)
                          ELSE pushed
                 staged == IF optimistic /\ operation.clientOperationId # ""
                           THEN [moved EXCEPT !.optimisticOperations =
                                                  OptimisticSet(@, operation)]
                           ELSE moved
             IN  ClientTrimHistoryIfNeeded(staged)

\* findIndex((op) => op.clientOperationId && op.clientOperationId ===
\* clientOperationId): 0 when absent (1-based here).
FindIndexByClientOperationId(ops, clientOperationId) ==
    IF \E i \in 1..Len(ops) : ops[i].clientOperationId # ""
                                /\ ops[i].clientOperationId = clientOperationId
    THEN CHOOSE i \in 1..Len(ops) :
            /\ ops[i].clientOperationId # ""
            /\ ops[i].clientOperationId = clientOperationId
            /\ \A j \in 1..(i - 1) : ops[j].clientOperationId # clientOperationId
    ELSE 0

\* confirmOperation(serverOperation): the staged entry leaves the table; the
\* entry of that clientOperationId is replaced where it is, or the operation
\* is pushed; the pointer goes to the end.
ConfirmOperation(st, serverOperation) ==
    LET clientOperationId == serverOperation.clientOperationId
        table == IF clientOperationId # ""
                 THEN {e \in st.optimisticOperations :
                          e.clientOperationId # clientOperationId}
                 ELSE st.optimisticOperations
        optimisticIndex == FindIndexByClientOperationId(st.operations, clientOperationId)
        ops == IF optimisticIndex >= 1
               THEN [st.operations EXCEPT ![optimisticIndex] = serverOperation]
               ELSE Append(st.operations, serverOperation)
    IN  ClientSetPointer([st EXCEPT !.optimisticOperations = table, !.operations = ops],
                         Len(ops) - 1)

\* (operations || []).forEach((operation) => addOperation(operation))
RECURSIVE AddOperations(_, _)
AddOperations(st, ops) ==
    IF ops = <<>> THEN st
    ELSE AddOperations(AddOperation(st, Head(ops), FALSE), Tail(ops))

SetUsers(st, us) == [st EXCEPT !.users = us]
UpsertUser(st, u) == [st EXCEPT !.users = @ \cup {u}]
ClientRemoveUser(st, u) == [st EXCEPT !.users = @ \ {u}]

(* ----------------------- client/js/websocket.js ------------------------ *)
\* handleMessage: the mirror after one message of the server.
HandleMessageResult(st, m) ==
    CASE m.type = "STATE_SYNC" ->
            ClientSetPointer(
                AddOperations(SetUsers(ResetHistory(st), m.users), m.operations),
                m.pointer)
      [] m.type \in {"DRAW_END", "CLEAR"} -> AddOperation(st, m.operation, FALSE)
      [] m.type \in {"UNDO", "REDO"} -> ClientSetPointer(st, m.pointer)
      [] m.type = "USER_JOINED" -> UpsertUser(st, m.user)
      [] m.type = "USER_LEFT" -> ClientRemoveUser(st, m.user)
      [] OTHER -> st

\* A local commit intent staged in the mirror: addOperation(entry,
\* {optimistic: true}).
StageOptimistic(c, entry) ==
    /\ state' = [state EXCEPT ![c] = AddOperation(@, entry, TRUE)]
    /\ UNCHANGED <<room, idCounter, outbox, resync, activeStrokes, colorPool, user,
                   issued, discarded>>

\* The same new operation given to the server's appendOperation and to the
\* client's addOperation (staged or not), each on its own copy of the history.
AppendOnBoth(c, optimistic) ==
    LET operation == BuildOperation(room, idCounter, c, "draw", NoPayload, "")
    IN  /\ room' = AppendOperation(BumpSequence(room), operation)
        /\ state' = [state EXCEPT ![c] = AddOperation(@, operation, optimistic)]
        /\ idCounter' = idCounter + 1
        /\ UNCHANGED <<outbox, resync, activeStrokes, colorPool, user, issued,
                       discarded>>

\* setPointer(value) of the server and of the client, with the same value.
SetPointerOnBoth(c, value) ==
    /\ room' = SetPointer(room, value)
    /\ state' = [state EXCEPT ![c] = ClientSetPointer(@, value)]
    /\ UNCHANGED <<idCounter, outbox, resync, activeStrokes, colorPool, user,
                   issued, discarded>>

(* -------------------------- server/server.js --------------------------- *)
\* sendMessage(ws, message): only to an open socket.
SendMessage(box, c, m) ==
    IF c \in room.users THEN [box EXCEPT ![c] = Append(@, m)] ELSE box

\* Mutant of Broadcast: the excluded socket gets the message too.
BroadcastToEveryone(box, open, m, exclude) ==
    [c \in Clients |-> IF c \in open THEN Append(box[c], m) ELSE box[c]]
\* broadcast(message, {exclude}): every open socket but the excluded one.
Broadcast(box, open, m, exclude) ==
    [c \in Clients |->
        IF c \in open /\ c \notin exclude THEN Append(box[c], m) ELSE box[c]]

StateSyncMessage(r) ==
    LET snapshot == GetStateSnapshot(r)
    IN  [type |-> "STATE_SYNC", operations |-> snapshot.operations,
         pointer |-> snapshot.pointer, users |-> snapshot.users]

\* The color handed out when the pool is empty.
FALLBACK_COLOR == "#000000"
\* constants.js of the server: the display colors, in their initial order.
COLOR_POOL == <<"#FF5733">>

\* assignColor(): the color returned and the pool left.
AssignedColor(pool) == IF Len(pool) > 0 THEN Head(pool) ELSE FALLBACK_COLOR
PoolAfterAssign(pool) == IF Len(pool) > 0 THEN Tail(pool) ELSE pool

\* releaseColor(color)
ReleaseColor(pool, color) ==
    IF color = "" THEN pool
    ELSE IF \E i \in 1..Len(pool) : pool[i] = color THEN pool
    ELSE Append(pool, color)

\* The participant object of a connection; no connection, no color.  Name
\* and connectedAt are read by no handler of the server.
NoUser == [color |-> ""]

\* buildStrokeMeta(messageData, fallback): each field of the message, or of
\* the fallback when the message's is falsy.
NoStroke == [clientOperationId |-> "", color |-> <<>>, width |-> 0, tool |-> ""]
BuildStrokeMeta(messageData, fallback) ==
    [clientOperationId |-> IF messageData.clientOperationId # ""
                           THEN messageData.clientOperationId
                           ELSE fallback.clientOperationId,
     color |-> IF messageData.color # <<>> THEN messageData.color ELSE fallback.color,
     width |-> IF messageData.width # 0 THEN messageData.width ELSE fallback.width,
     tool |-> IF messageData.tool # "" THEN messageData.tool
              ELSE IF fallback.tool # "" THEN fallback.tool ELSE "brush"]

\* The Map of in-flight strokes of one connection, keyed by clientOperationId.
StrokesHas(strokes, id) == \E s \in strokes : s.clientOperationId = id
StrokesGet(strokes, id) ==
    IF StrokesHas(strokes, id)
    THEN CHOOSE s \in strokes : s.clientOperationId = id
    ELSE NoStroke
StrokesDelete(strokes, id) == {s \in strokes : s.clientOperationId # id}
StrokesSet(strokes, stroke) ==
    StrokesDelete(strokes, stroke.clientOperationId) \cup {stroke}

\* Mutant of Connect: no snapshot is sent until the client asks for one.
ConnectWithoutSnapshot(c) ==
    /\ c \notin room.users
    /\ user' = [user EXCEPT ![c] = [color |-> AssignedColor(colorPool)]]
    /\ colorPool' = PoolAfterAssign(colorPool)
    /\ activeStrokes' = [activeStrokes EXCEPT ![c] = {}]
    /\ LET r == AddUser(room, c)
       IN  /\ room' = r
           /\ outbox' = Broadcast([outbox EXCEPT ![c] = <<>>],
                                  r.users, [type |-> "USER_JOINED", user |-> c], {c})
    /\ resync' = [resync EXCEPT ![c] = TRUE]
    /\ UNCHANGED <<idCounter, state, issued, discarded>>
\* wss.on('connection'): the participant gets a color and an empty table of
\* in-flight strokes, is registered and gets the snapshot; the others get
\* USER_JOINED.  On 'open' the client asks for STATE_SYNC.  The participant
\* is identified by its connection.
Connect(c) ==
    /\ c \notin room.users
    /\ user' = [user EXCEPT ![c] = [color |-> AssignedColor(colorPool)]]
    /\ colorPool' = PoolAfterAssign(colorPool)
    /\ activeStrokes' = [activeStrokes EXCEPT ![c] = {}]
    /\ LET r == AddUser(room, c)
       IN  /\ room' = r
           /\ outbox' = Broadcast([outbox EXCEPT ![c] = <<StateSyncMessage(r)>>],
                                  r.users, [type |-> "USER_JOINED", user |-> c], {c})
    /\ resync' = [resync EXCEPT ![c] = TRUE]
    /\ UNCHANGED <<idCounter, state, issued, discarded>>

\* Mutant of Disconnect: a stroke still in flight is committed at the close.
DisconnectFlushing(c) ==
    /\ c \in room.users
    /\ colorPool' = ReleaseColor(colorPool, user[c].color)
    /\ user' = [user EXCEPT ![c] = NoUser]
    /\ LET pending == activeStrokes[c]
           stroke == CHOOSE s \in pending : TRUE
           operation == BuildOperation(room, idCounter, c, "draw",
                            [path |-> <<>>, color |-> stroke.color,
                             width |-> stroke.width, tool |-> stroke.tool],
                            stroke.clientOperationId)
           r == IF pending = {} THEN RemoveUser(room, c)
                ELSE RemoveUser(AppendOperation(BumpSequence(room), operation), c)
       IN  /\ room' = r
           /\ idCounter' = IF pending = {} THEN idCounter ELSE idCounter + 1
           /\ issued' = IF pending = {} THEN issued
                         ELSE Append(issued, operation.sequenceNumber)
           /\ outbox' = Broadcast([outbox EXCEPT ![c] = <<>>],
                                  r.users, [type |-> "USER_LEFT", user |-> c], {})
    /\ resync' = [resync EXCEPT ![c] = FALSE]
    /\ UNCHANGED <<state, activeStrokes, discarded>>
\* ws.on('close'): the participant leaves, its color goes back to the pool,
\* the others get USER_LEFT.  What was in flight on the closed socket is
\* lost; the table of in-flight strokes is not looked at.
Disconnect(c) ==
    /\ c \in room.users
    /\ colorPool' = ReleaseColor(colorPool, user[c].color)
    /\ user' = [user EXCEPT ![c] = NoUser]
    /\ LET r == RemoveUser(room, c)
       IN  /\ room' = r
           /\ outbox' = Broadcast([outbox EXCEPT ![c] = <<>>],
                                  r.users, [type |-> "USER_LEFT", user |-> c], {})
    /\ resync' = [resync EXCEPT ![c] = FALSE]
    /\ UNCHANGED <<idCounter, state, activeStrokes, issued, discarded>>

\* sendError(ws, reason)
Reject(c, error) ==
    /\ outbox' = SendMessage(outbox, c, [type |-> "ERROR", message |-> error])
    /\ UNCHANGED <<room, idCounter, resync, state, activeStrokes, colorPool, user,
                   issued, discarded>>

\* handleDrawStart: the stroke is noted in the connection's table and
\* relayed to the others.
HandleDrawStart(c, data) ==
    /\ c \in room.users
    /\ LET validation == ValidateOperationPayload("DRAW_START", data)
           stroke == BuildStrokeMeta(data, NoStroke)
       IN  IF ~validation.valid
           THEN Reject(c, validation.error)
           ELSE /\ activeStrokes' = [activeStrokes EXCEPT ![c] = StrokesSet(@, stroke)]
                /\ outbox' = Broadcast(outbox, room.users,
                                [type |-> "DRAW_START", userId |-> c,
                                 stroke |-> stroke, point |-> data.point], {c})
                /\ UNCHANGED <<room, idCounter, resync, state, colorPool, user,
                               issued, discarded>>

\* Mutant of HandleDrawMove: the stroke is looked up in the tables of all
\* connections.
HandleDrawMoveAnyTable(c, data) ==
    /\ c \in room.users
    /\ LET validation == ValidateOperationPayload("DRAW_MOVE", data)
           holders == {d \in Clients : StrokesHas(activeStrokes[d], data.clientOperationId)}
           known == holders # {}
           canRehydrate == data.color # <<>> /\ data.width # 0 /\ data.tool # ""
           stroke == IF known
                     THEN StrokesGet(activeStrokes[CHOOSE d \in holders : TRUE],
                                     data.clientOperationId)
                     ELSE BuildStrokeMeta(data, NoStroke)
       IN  IF ~validation.valid
           THEN Reject(c, validation.error)
           ELSE IF ~known /\ ~canRehydrate
           THEN Reject(c, "Unknown stroke reference")
           ELSE /\ activeStrokes' = IF known THEN activeStrokes
                                    ELSE [activeStrokes EXCEPT ![c] = StrokesSet(@, stroke)]
                /\ outbox' = Broadcast(outbox, room.users,
                                [type |-> "DRAW_MOVE", userId |-> c,
                                 stroke |-> stroke, points |-> data.points], {c})
                /\ UNCHANGED <<room, idCounter, resync, state, colorPool, user,
                               issued, discarded>>
\* handleDrawMove: a stroke the table does not hold is noted from the
\* message when it carries color, width and tool, and refused otherwise.
HandleDrawMove(c, data) ==
    /\ c \in room.users
    /\ LET validation == ValidateOperationPayload("DRAW_MOVE", data)
           known == StrokesHas(activeStrokes[c], data.clientOperationId)
           canRehydrate == data.color # <<>> /\ data.width # 0 /\ data.tool # ""
           stroke == IF known THEN StrokesGet(activeStrokes[c], data.clientOperationId)
                     ELSE BuildStrokeMeta(data, NoStroke)
       IN  IF ~validation.valid
           THEN Reject(c, validation.error)
           ELSE IF ~known /\ ~canRehydrate
           THEN Reject(c, "Unknown stroke reference")
           ELSE /\ activeStrokes' = IF known THEN activeStrokes
                                    ELSE [activeStrokes EXCEPT ![c] = StrokesSet(@, stroke)]
                /\ outbox' = Broadcast(outbox, room.users,
                                [type |-> "DRAW_MOVE", userId |-> c,
                                 stroke |-> stroke, points |-> data.points], {c})
                /\ UNCHANGED <<room, idCounter, resync, state, colorPool, user,
                               issued, discarded>>

\* buildOperation + appendOperation + relay to everyone, sender included
\* (a CLEAR carries no stroke).
Commit(c, type, data, clientOperationId, msgType, stroke) ==
    LET operation == BuildOperation(room, idCounter, c, type, data, clientOperationId)
        built == BumpSequence(room)
    IN  /\ room' = AppendOperation(built, operation)
        /\ idCounter' = idCounter + 1
        /\ issued' = Append(issued, operation.sequenceNumber)
        /\ discarded' = discarded \cup
                           (Ids(built.operations) \ Ids(CutFuture(built).operations))
        /\ outbox' = Broadcast(outbox, room.users,
                               [type |-> msgType, userId |-> c, stroke |-> stroke,
                                operation |-> operation], {})
        /\ UNCHANGED <<resync, state, colorPool, user>>

\* handleDrawEnd: the stroke leaves the table; the operation takes its style
\* from the message, or from the table where the message has none.
HandleDrawEnd(c, data) ==
    /\ c \in room.users
    /\ LET validation == ValidateOperationPayload("DRAW_END", data)
           cachedStroke == StrokesGet(activeStrokes[c], data.clientOperationId)
           stroke == BuildStrokeMeta(data, cachedStroke)
       IN  IF ~validation.valid
           THEN Reject(c, validation.error)
           ELSE /\ activeStrokes' = [activeStrokes EXCEPT
                                        ![c] = StrokesDelete(@, data.clientOperationId)]
                /\ Commit(c, IF stroke.tool = "eraser" THEN "erase" ELSE "draw",
                          [path |-> data.path, color |-> stroke.color,
                           width |-> stroke.width, tool |-> stroke.tool],
                          stroke.clientOperationId, "DRAW_END", stroke)

\* The data of an operation without payload ({}).
NoData == [path |-> <<>>, color |-> <<>>, width |-> 0, tool |-> ""]

\* Mutant of HandleClear: the log is emptied before the clear is appended.
HandleClearWiping(c) ==
    /\ c \in room.users
    /\ LET operation == BuildOperation(room, idCounter, c, "clear", NoData, "")
           wiped == [BumpSequence(room) EXCEPT !.operations = <<>>, !.pointer = -1]
       IN  /\ room' = AppendOperation(wiped, operation)
           /\ idCounter' = idCounter + 1
           /\ issued' = Append(issued, operation.sequenceNumber)
           /\ discarded' = discarded \cup Ids(room.operations)
           /\ outbox' = Broadcast(outbox, room.users,
                                  [type |-> "CLEAR", userId |-> c, stroke |-> NoStroke,
                                   operation |-> operation], {})
    /\ UNCHANGED <<resync, state, colorPool, user, activeStrokes>>
HandleClear(c) ==
    /\ c \in room.users
    /\ LET validation == ValidateOperationPayload("CLEAR", NoData)
       IN  IF ~validation.valid
           THEN Reject(c, validation.error)
           ELSE /\ Commit(c, "clear", NoData, "", "CLEAR", NoStroke)
                /\ UNCHANGED activeStrokes

\* handleCursorMove: relayed to the others; a cursor that is absent or out
\* of bounds is dropped without an answer.
HandleCursorMove(c, cursor) ==
    /\ c \in room.users
    /\ outbox' = IF ~EnsurePoint(cursor) THEN outbox
                 ELSE Broadcast(outbox, room.users,
                        [type |-> "CURSOR_MOVE", userId |-> c, cursor |-> cursor], {c})
    /\ UNCHANGED <<room, idCounter, resync, state, activeStrokes, colorPool, user,
                   issued, discarded>>

\* ws.on('message'), default branch and catch: a type the switch does not
\* know, or a text JSON.parse refuses.
HandleUnknown(c, wellFormed) ==
    /\ c \in room.users
    /\ Reject(c, IF wellFormed THEN "Unknown message type" ELSE "Invalid message format")

\* A client sends {type: NAME_CHANGE, data: {name}} (sendNameChange): the
\* switch has no case for the type, so the default branch answers.
HandleNameChange(c, name) ==
    /\ c \in room.users
    /\ Reject(c, "Unknown message type")

HandleUndoRedo(c, msgType) ==
    /\ c \in room.users
    /\ LET r == IF msgType = "UNDO" THEN Undo(room) ELSE Redo(room)
       IN  /\ room' = r
           /\ outbox' = Broadcast(outbox, room.users,
                                  [type |-> msgType, pointer |-> r.pointer], {})
    /\ UNCHANGED <<idCounter, resync, state, activeStrokes, colorPool, user,
                   issued, discarded>>

\* A client sends {type: STATE_SYNC} (requestStateSync).
RequestStateSync(c) ==
    /\ c \in room.users
    /\ ~resync[c]
    /\ resync' = [resync EXCEPT ![c] = TRUE]
    /\ UNCHANGED <<room, idCounter, outbox, state, activeStrokes, colorPool, user,
                   issued, discarded>>

\* case MESSAGE_TYPES.STATE_SYNC: sendStateSync(ws, user)
HandleStateSync(c) ==
    /\ c \in room.users
    /\ resync[c]
    /\ outbox' = SendMessage(outbox, c, StateSyncMessage(room))
    /\ resync' = [resync EXCEPT ![c] = FALSE]
    /\ UNCHANGED <<room, idCounter, state, activeStrokes, colorPool, user,
                   issued, discarded>>

\* socket 'message' at the client: handleMessage on the oldest message.
HandleMessage(c) ==
    /\ c \in room.users
    /\ outbox[c] # <<>>
    /\ state' = [state EXCEPT ![c] = HandleMessageResult(@, Head(outbox[c]))]
    /\ outbox' = [outbox EXCEPT ![c] = Tail(@)]
    /\ UNCHANGED <<room, idCounter, resync, activeStrokes, colorPool, user,
                   issued, discarded>>

(* ------------------------- client/js/canvas.js ------------------------ *)
\* The main canvas is held as what was drawn on it since it was last empty:
\* the ids of the operations, in drawing order.  imageData of a checkpoint
\* is such a surface.
NewCanvas == [surface |-> <<>>, lastRenderedPointer |-> -1, checkpoints |-> <<>>]

\* drawOperation(mainCtx, data): nothing without a path.
DrawOperation(cv, operation) ==
    IF Len(operation.data.path) = 0 THEN cv
    ELSE [cv EXCEPT !.surface = Append(@, operation.id)]

\* handleClearOperation: clearAllCanvases, clearCheckpoints.
HandleClearOperation(cv) ==
    [cv EXCEPT !.surface = <<>>, !.checkpoints = <<>>, !.lastRenderedPointer = -1]

\* Math.ceil(MAX_OPERATIONS / CHECKPOINT_INTERVAL)
CheckpointCap == (MAX_OPERATIONS + CHECKPOINT_INTERVAL - 1) \div CHECKPOINT_INTERVAL

\* saveCheckpoint(pointer, imageData)
SaveCheckpoint(checkpoints, pointer, imageData) ==
    LET pushed == Append(checkpoints, [pointer |-> pointer, imageData |-> imageData])
    IN  IF Len(pushed) > CheckpointCap THEN Tail(pushed) ELSE pushed

\* clone.sort((a, b) => b.pointer - a.pointer): descending, equal pointers
\* in their stored order.
RECURSIVE SortByPointerDescending(_)
SortByPointerDescending(checkpoints) ==
    IF checkpoints = <<>> THEN <<>>
    ELSE LET n == Len(checkpoints)
             first == CHOOSE i \in 1..n :
                         /\ \A j \in 1..n : checkpoints[j].pointer <= checkpoints[i].pointer
                         /\ \A j \in 1..(i - 1) :
                               checkpoints[j].pointer < checkpoints[i].pointer
             others == [j \in 1..(n - 1) |->
                          IF j < first THEN checkpoints[j] ELSE checkpoints[j + 1]]
         IN  <<checkpoints[first]>> \o SortByPointerDescending(others)

\* Mutant of GetCheckpoint: the first stored checkpoint that is not beyond
\* the target, in stored order.
GetCheckpointUnsorted(checkpoints, targetPointer) ==
    IF \E i \in 1..Len(checkpoints) : checkpoints[i].pointer <= targetPointer
    THEN <<checkpoints[CHOOSE i \in 1..Len(checkpoints) :
                /\ checkpoints[i].pointer <= targetPointer
                /\ \A j \in 1..(i - 1) : checkpoints[j].pointer > targetPointer]>>
    ELSE <<>>
\* getCheckpoint(targetPointer): <<checkpoint>>, or <<>> for null.
GetCheckpoint(checkpoints, targetPointer) ==
    LET clone == SortByPointerDescending(checkpoints)
    IN  IF \E i \in 1..Len(clone) : clone[i].pointer <= targetPointer
        THEN <<clone[CHOOSE i \in 1..Len(clone) :
                  /\ clone[i].pointer <= targetPointer
                  /\ \A j \in 1..(i - 1) : clone[j].pointer > targetPointer]>>
        ELSE <<>>

\* getCheckpoint sorts a copy ([...state.checkpoints]): the cache after the
\* call.
CheckpointsAfterGet(checkpoints) == checkpoints

\* rebuildCanvasFromHistory, the loop: operations[i] for i = from .. pointer
\* (0-based), a clear through handleClearOperation.
RECURSIVE Replay(_, _, _, _)
Replay(cv, operations, from, pointer) ==
    IF from > pointer \/ from + 1 > Len(operations) THEN cv
    ELSE LET operation == operations[from + 1]
         IN  Replay(IF operation.type = "clear" THEN HandleClearOperation(cv)
                    ELSE DrawOperation(cv, operation),
                    operations, from + 1, pointer)

\* rebuildCanvasFromHistory on the mirror st.
RebuildCanvasFromHistory(cv, st) ==
    LET cleared == [cv EXCEPT !.surface = <<>>,
                              !.checkpoints = IF st.pointer < 0 THEN @
                                              ELSE CheckpointsAfterGet(@)]
    IN  IF st.pointer < 0 THEN [cleared EXCEPT !.lastRenderedPointer = -1]
        ELSE LET checkpoint == GetCheckpoint(cv.checkpoints, st.pointer)
                 restored == IF checkpoint # <<>>
                             THEN [cleared EXCEPT !.surface = checkpoint[1].imageData]
                             ELSE cleared
                 startIndex == IF checkpoint # <<>> THEN checkpoint[1].pointer + 1 ELSE 0
             IN  [Replay(restored, st.operations, startIndex, st.pointer)
                     EXCEPT !.lastRenderedPointer = st.pointer]

\* handleOperationCommitted(operation), listener of 'operationAdded', on the
\* mirror st as it is when the event is emitted.
HandleOperationCommitted(cv, st, operation) ==
    IF operation.type = "clear" THEN HandleClearOperation(cv)
    ELSE IF Len(operation.data.path) = 0 THEN cv
    ELSE IF operation.sequenceNumber = -1 THEN DrawOperation(cv, operation)
    ELSE IF operation.sequenceNumber = cv.lastRenderedPointer + 1
    THEN LET drawn == [DrawOperation(cv, operation)
                          EXCEPT !.lastRenderedPointer = operation.sequenceNumber]
         IN  IF (operation.sequenceNumber + 1) % CHECKPOINT_INTERVAL = 0
             THEN [drawn EXCEPT !.checkpoints =
                      SaveCheckpoint(@, operation.sequenceNumber, drawn.surface)]
             ELSE drawn
    ELSE RebuildCanvasFromHistory(cv, st)

\* addOperation up to the 'operationAdded' event: cut, push, pointer, table.
AddOperationUntrimmed(st, operation, optimistic) ==
    LET cut == IF st.pointer < Len(st.operations) - 1
               THEN TruncateFutureHistory(st) ELSE st
        pushed == [cut EXCEPT !.operations = Append(@, operation)]
        moved == IF ~optimistic
                 THEN ClientSetPointer(pushed, Len(pushed.operations) - 1)
                 ELSE pushed
    IN  IF optimistic /\ operation.clientOperationId # ""
        THEN [moved EXCEPT !.optimisticOperations = OptimisticSet(@, operation)]
        ELSE moved

\* truncateFutureHistory, last statement: checkpoints beyond the pointer go.
CheckpointsUpTo(checkpoints, pointer) ==
    SelectSeq(checkpoints, LAMBDA checkpoint : checkpoint.pointer <= pointer)

\* trimHistoryIfNeeded, on the checkpoints: moved down by the overflow,
\* those that fall off the front go.
ShiftCheckpoints(checkpoints, overflow) ==
    SelectSeq([i \in 1..Len(checkpoints) |->
                  [checkpoints[i] EXCEPT !.pointer = @ - overflow]],
              LAMBDA checkpoint : checkpoint.pointer >= 0)

\* What addOperation(operation, {optimistic}) on the mirror st does to the
\* canvas and the checkpoints: the cut filters the checkpoints, the
\* 'operationAdded' listener draws, the trim moves the checkpoints.
AddOperationOnCanvas(cv, st, operation, optimistic) ==
    IF FindIndexById(st.operations, operation.id) >= 1 THEN cv
    ELSE LET kept == IF st.pointer < Len(st.operations) - 1
                     THEN [cv EXCEPT !.checkpoints = CheckpointsUpTo(@, st.pointer)]
                     ELSE cv
             added == AddOperationUntrimmed(st, operation, optimistic)
             committed == HandleOperationCommitted(kept, added, operation)
             overflow == Len(added.operations) - MAX_OPERATIONS
         IN  IF overflow <= 0 THEN committed
             ELSE [committed EXCEPT !.checkpoints = ShiftCheckpoints(@, overflow)]

\* setPointer(value), not silent: 'pointerChanged' when the pointer moved.
SetPointerOnCanvas(cv, st, value) ==
    IF ClampPointer(st, value) = st.pointer THEN cv
    ELSE RebuildCanvasFromHistory(cv, ClientSetPointer(st, value))

\* (operations || []).forEach((operation) => addOperation(operation)), on the
\* canvas.
RECURSIVE AddOperationsOnCanvas(_, _, _)
AddOperationsOnCanvas(cv, st, ops) ==
    IF ops = <<>> THEN cv
    ELSE AddOperationsOnCanvas(AddOperationOnCanvas(cv, st, Head(ops), FALSE),
                               AddOperation(st, Head(ops), FALSE), Tail(ops))

\* handleMessage: the canvas after one message of the server.  STATE_SYNC:
\* resetHistory ('historyReset' clears the surface), requestRebuild, the
\* operations one by one, setPointer.
HandleMessageCanvasResult(cv, st, m) ==
    CASE m.type = "STATE_SYNC" ->
            LET reset == SetUsers(ResetHistory(st), m.users)
                emptied == RebuildCanvasFromHistory(
                               [cv EXCEPT !.surface = <<>>, !.checkpoints = <<>>], reset)
            IN  SetPointerOnCanvas(AddOperationsOnCanvas(emptied, reset, m.operations),
                                   AddOperations(reset, m.operations), m.pointer)
      [] m.type \in {"DRAW_END", "CLEAR"} ->
            AddOperationOnCanvas(cv, st, m.operation, FALSE)
      [] m.type \in {"UNDO", "REDO"} -> SetPointerOnCanvas(cv, st, m.pointer)
      [] OTHER -> cv

\* handleMessage of a client whose canvas listens to the mirror.
HandleMessageOnCanvas(c) ==
    /\ HandleMessage(c)
    /\ canvas' = [canvas EXCEPT
                     ![c] = HandleMessageCanvasResult(@, state[c], Head(outbox[c]))]

(* ------------------------ client/js/websocket.js ----------------------- *)
BACKOFF_STEPS == <<1000, 2000, 4000, 8000, 16000, 30000>>

\* The module after it was loaded: no socket yet (0), nothing queued.
\* readyState[s] is the state of the s-th WebSocket made, timers the waits of
\* the setTimeout calls not yet due, transmitted what was handed to
\* socket.send, in order, with the socket it went to; sends counts the
\* messages handed to send, which makes each payload a message of its own.
NewWebSocket ==
    [socket |-> 0, reconnectAttempt |-> 0, isConnecting |-> FALSE,
     outboundQueue |-> <<>>, readyState |-> <<>>, timers |-> <<>>,
     transmitted |-> <<>>, sends |-> 0]

\* socket && socket.readyState === WebSocket.OPEN
SocketIsOpen(ws) == ws.socket # 0 /\ ws.readyState[ws.socket] = "OPEN"

\* send(message): nothing without a type; to the socket when it is open, to
\* the queue otherwise.
Send(ws, type) ==
    IF type = "" THEN ws
    ELSE LET payload == [type |-> type, serial |-> ws.sends + 1]
         IN  IF SocketIsOpen(ws)
             THEN [ws EXCEPT !.transmitted =
                                 Append(@, [socket |-> ws.socket, payload |-> payload]),
                             !.sends = @ + 1]
             ELSE [ws EXCEPT !.outboundQueue = Append(@, payload), !.sends = @ + 1]

\* Mutant of FlushQueue: the queue is sent and kept.
FlushQueueKeeping(ws) ==
    IF ~SocketIsOpen(ws) THEN ws
    ELSE [ws EXCEPT !.transmitted =
                        @ \o [i \in 1..Len(ws.outboundQueue) |->
                                 [socket |-> ws.socket, payload |-> ws.outboundQueue[i]]]]
\* flushQueue(): while (outboundQueue.length) socket.send(outboundQueue.shift())
FlushQueue(ws) ==
    IF ~SocketIsOpen(ws) THEN ws
    ELSE [ws EXCEPT !.transmitted =
                        @ \o [i \in 1..Len(ws.outboundQueue) |->
                                 [socket |-> ws.socket, payload |-> ws.outboundQueue[i]]],
                    !.outboundQueue = <<>>]

\* Mutant of ScheduleReconnect: the attempts are not counted.
ScheduleReconnectUncounted(ws) ==
    LET wait == BACKOFF_STEPS[Min(ws.reconnectAttempt, Len(BACKOFF_STEPS) - 1) + 1]
    IN  [ws EXCEPT !.timers = Append(@, wait)]
\* scheduleReconnect(): BACKOFF_STEPS is indexed from 0 in the source.
ScheduleReconnect(ws) ==
    LET wait == BACKOFF_STEPS[Min(ws.reconnectAttempt, Len(BACKOFF_STEPS) - 1) + 1]
    IN  [ws EXCEPT !.timers = Append(@, wait), !.reconnectAttempt = @ + 1]

\* connect(): nothing while connecting; else a new WebSocket becomes socket.
ClientConnect(ws) ==
    IF ws.isConnecting THEN ws
    ELSE [ws EXCEPT !.isConnecting = TRUE,
                    !.readyState = Append(@, "CONNECTING"),
                    !.socket = Len(ws.readyState) + 1]

\* The 'open' listener: the counter and the flag are reset, the queue is
\* flushed, requestStateSync().
OnOpen(ws) ==
    Send(FlushQueue([ws EXCEPT !.reconnectAttempt = 0, !.isConnecting = FALSE]),
         "STATE_SYNC")

\* The 'close' listener.
OnClose(ws) == ScheduleReconnect([ws EXCEPT !.isConnecting = FALSE])

\* initWebSocket(...), called when the page starts.
InitWebSocket ==
    /\ websocket = NewWebSocket
    /\ websocket' = ClientConnect(websocket)
    /\ UNCHANGED <<room, idCounter, outbox, resync, state, activeStrokes, colorPool,
                   user, issued, discarded, recent, canvas, verdict>>

\* The s-th WebSocket opens: 'open' is dispatched.
SocketOpens(s) ==
    /\ s \in 1..Len(websocket.readyState)
    /\ websocket.readyState[s] = "CONNECTING"
    /\ websocket' = OnOpen([websocket EXCEPT !.readyState[s] = "OPEN"])
    /\ UNCHANGED <<room, idCounter, outbox, resync, state, activeStrokes, colorPool,
                   user, issued, discarded, recent, canvas, verdict>>

\* The s-th WebSocket fails to open or loses its connection: 'close' is
\* dispatched.
SocketCloses(s) ==
    /\ s \in 1..Len(websocket.readyState)
    /\ websocket.readyState[s] \in {"CONNECTING", "OPEN"}
    /\ websocket' = OnClose([websocket EXCEPT !.readyState[s] = "CLOSED"])
    /\ UNCHANGED <<room, idCounter, outbox, resync, state, activeStrokes, colorPool,
                   user, issued, discarded, recent, canvas, verdict>>

\* The i-th pending timer is due: setTimeout(() => connect(), wait).
TimerFires(i) ==
    /\ i \in 1..Len(websocket.timers)
    /\ websocket' =
          ClientConnect([websocket EXCEPT
                            !.timers = SubSeq(@, 1, i - 1) \o SubSeq(@, i + 1, Len(@))])
    /\ UNCHANGED <<room, idCounter, outbox, resync, state, activeStrokes, colorPool,
                   user, issued, discarded, recent, canvas, verdict>>

\* One of the send* helpers is called.
CallSend(type) ==
    /\ websocket' = Send(websocket, type)
    /\ UNCHANGED <<room, idCounter, outbox, resync, state, activeStrokes, colorPool,
                   user, issued, discarded, recent, canvas, verdict>>

Init ==
    /\ room = NewRoom
    /\ idCounter = 0
    /\ outbox = [c \in Clients |-> <<>>]
    /\ resync = [c \in Clients |-> FALSE]
    /\ state = [c \in Clients |-> NewState]
    /\ activeStrokes = [c \in Clients |-> {}]
    /\ colorPool = COLOR_POOL
    /\ user = [c \in Clients |-> NoUser]
    /\ issued = <<>>
    /\ discarded = {}
    /\ recent = <<>>
    /\ canvas = [c \in Clients |-> NewCanvas]
    /\ verdict = <<>>
    /\ websocket = NewWebSocket

(* --------------------------- specifications --------------------------- *)
\* The bounds of a behaviour: commits so far, messages in flight per client.
CommitsBelow(n) == room.sequenceCounter < n
ChannelsBelow(n) == \A c \in Clients : Len(outbox[c]) < n
\* The same bound on the messages in flight to all clients together.
InFlightBelow(n) == Len(outbox["c1"]) + Len(outbox["c2"]) + Len(outbox["c3"]) < n

\* History of the last log mutations, newest last, at most four: the kind,
\* the id of the committed operation and the visible count before the step.
Remember(kind, id) ==
    LET r == Append(recent, [kind |-> kind, id |-> id, before |-> room.pointer + 1])
    IN  recent' = IF Len(r) > 4 THEN Tail(r) ELSE r

\* The messages the behaviours send.  BrushStroke is the stroke of the test
\* harness; the others differ from it in one field.
BrushStroke ==
    [clientOperationId |-> "s1", point |-> <<50, 60>>, points |-> << <<55, 70>> >>,
     path |-> << <<50, 60>>, <<55, 70>> >>,
     color |-> <<"#", "1", "2", "3", "4", "5", "6">>, tool |-> "brush", width |-> 5]
WideStroke == [BrushStroke EXCEPT !.width = 21]
OffCanvasStroke ==
    [BrushStroke EXCEPT !.point = <<50, MAX_COORDINATE + 1>>,
                        !.points = << <<55, MAX_COORDINATE + 1>> >>,
                        !.path = << <<50, 60>>, <<55, MAX_COORDINATE + 1>> >>]
EraserStroke == [BrushStroke EXCEPT !.tool = "eraser"]
\* A second stroke, which its client starts and never ends.
AbandonedStroke == [BrushStroke EXCEPT !.clientOperationId = "s2"]
\* A DRAW_MOVE that names its stroke and carries nothing of its style.
BareMove ==
    [BrushStroke EXCEPT !.color = <<>>, !.tool = "", !.width = 0]
\* A staged entry: operation-shaped, with a local id and no sequence number
\* (-1 stands for the absent number).
PendingEntry(c, id, clientOperationId) ==
    [id |-> id, userId |-> c, sequenceNumber |-> -1, type |-> "draw",
     data |-> [path |-> BrushStroke.path, color |-> BrushStroke.color,
               width |-> BrushStroke.width, tool |-> BrushStroke.tool],
     clientOperationId |-> clientOperationId]

\* The entries SpecMirror stages: one for the stroke the server commits,
\* one for a stroke of its own.
StagedEntries == {PendingEntry(Solo, -1, "s1"), PendingEntry(Solo, -2, "s2")}

\* The strokes of a client that names each stroke once: the n-th stroke it
\* ends and the entry it stages for it.
StrokeIds == <<"s1", "s2", "s3", "s4", "s5", "s6">>
NthStroke(n) == [BrushStroke EXCEPT !.clientOperationId = StrokeIds[n]]
NthEntry(n) == PendingEntry(Solo, -n, StrokeIds[n])

\* The DRAW_MOVE messages of SpecShare: with the whole style, with none of
\* it, and with all but the color, the width or the tool.
ShareMoveInputs ==
    {BrushStroke, BareMove, [BrushStroke EXCEPT !.color = <<>>],
     [BrushStroke EXCEPT !.width = 0], [BrushStroke EXCEPT !.tool = ""]}

\* What SpecRelay sends as DRAW_START, DRAW_MOVE and DRAW_END.
DrawStartInputs == {BrushStroke, WideStroke}
DrawMoveInputs == {BareMove, BrushStroke, OffCanvasStroke}
DrawEndInputs == {BrushStroke, OffCanvasStroke}

\* Spec: one participant; strokes and clears; the log with its history.
Next ==
    \/ ChannelsBelow(MaxOutbox) /\ Connect(Solo) /\ UNCHANGED <<recent, canvas, verdict, websocket>>
    \/ ChannelsBelow(MaxOutbox) /\ Disconnect(Solo) /\ UNCHANGED <<recent, canvas, verdict, websocket>>
    \/ /\ ChannelsBelow(MaxOutbox) /\ CommitsBelow(MaxCommits)
       /\ \E data \in {BrushStroke, WideStroke} : HandleDrawEnd(Solo, data)
       /\ UNCHANGED <<recent, canvas, verdict, websocket>>
    \/ /\ ChannelsBelow(MaxOutbox) /\ CommitsBelow(MaxCommits)
       /\ HandleClear(Solo)
       /\ UNCHANGED <<recent, canvas, verdict, websocket>>
    \/ /\ ChannelsBelow(MaxOutbox)
       /\ \E t \in {"UNDO", "REDO"} : HandleUndoRedo(Solo, t)
       /\ UNCHANGED <<recent, canvas, verdict, websocket>>
    \/ RequestStateSync(Solo) /\ UNCHANGED <<recent, canvas, verdict, websocket>>
    \/ ChannelsBelow(MaxOutbox) /\ HandleStateSync(Solo) /\ UNCHANGED <<recent, canvas, verdict, websocket>>
    \/ HandleMessage(Solo) /\ UNCHANGED <<recent, canvas, verdict, websocket>>

Spec == Init /\ [][Next]_vars

\* SpecScenario: the same participant, with the last four log mutations
\* recorded.
NextScenario ==
    \/ ChannelsBelow(MaxOutbox) /\ Connect(Solo) /\ UNCHANGED <<recent, canvas, verdict, websocket>>
    \/ ChannelsBelow(MaxOutbox) /\ Disconnect(Solo) /\ UNCHANGED <<recent, canvas, verdict, websocket>>
    \/ /\ ChannelsBelow(MaxOutbox) /\ CommitsBelow(MaxCommits)
       /\ HandleDrawEnd(Solo, BrushStroke)
       /\ Remember("commit", idCounter)
       /\ UNCHANGED <<canvas, verdict, websocket>>
    \/ ChannelsBelow(MaxOutbox) /\ HandleUndoRedo(Solo, "UNDO") /\ Remember("undo", -1)
       /\ UNCHANGED <<canvas, verdict, websocket>>
    \/ ChannelsBelow(MaxOutbox) /\ HandleUndoRedo(Solo, "REDO") /\ Remember("redo", -1)
       /\ UNCHANGED <<canvas, verdict, websocket>>
    \/ RequestStateSync(Solo) /\ UNCHANGED <<recent, canvas, verdict, websocket>>
    \/ ChannelsBelow(MaxOutbox) /\ HandleStateSync(Solo) /\ UNCHANGED <<recent, canvas, verdict, websocket>>
    \/ HandleMessage(Solo) /\ UNCHANGED <<recent, canvas, verdict, websocket>>

SpecScenario == Init /\ [][NextScenario]_vars

\* SpecSync: every client, strokes of one tool; the mirrors against the log.
NextSync ==
    \/ /\ ChannelsBelow(MaxSyncOutbox)
       /\ \E c \in Pair : Connect(c)
       /\ UNCHANGED <<recent, canvas, verdict, websocket>>
    \/ /\ ChannelsBelow(MaxSyncOutbox)
       /\ \E c \in Pair : Disconnect(c)
       /\ UNCHANGED <<recent, canvas, verdict, websocket>>
    \/ /\ ChannelsBelow(MaxSyncOutbox) /\ CommitsBelow(MaxSyncCommits)
       /\ \E c \in Pair : HandleDrawEnd(c, BrushStroke)
       /\ UNCHANGED <<recent, canvas, verdict, websocket>>
    \/ /\ ChannelsBelow(MaxSyncOutbox)
       /\ \E c \in Pair, t \in {"UNDO", "REDO"} : HandleUndoRedo(c, t)
       /\ UNCHANGED <<recent, canvas, verdict, websocket>>
    \/ (\E c \in Pair : RequestStateSync(c)) /\ UNCHANGED <<recent, canvas, verdict, websocket>>
    \/ /\ ChannelsBelow(MaxSyncOutbox)
       /\ \E c \in Pair : HandleStateSync(c)
       /\ UNCHANGED <<recent, canvas, verdict, websocket>>
    \/ (\E c \in Pair : HandleMessage(c)) /\ UNCHANGED <<recent, canvas, verdict, websocket>>

SpecSync == Init /\ [][NextSync]_vars

\* SpecRelay: a participant sending every message of the protocol, valid and
\* invalid, and a second one that listens, comes and goes: relays, errors.
NextRelay ==
    \/ /\ InFlightBelow(MaxRelayOutbox)
       /\ \E c \in Pair : Connect(c)
       /\ UNCHANGED <<recent, canvas, verdict, websocket>>
    \/ InFlightBelow(MaxRelayOutbox) /\ Disconnect(Peer) /\ UNCHANGED <<recent, canvas, verdict, websocket>>
    \/ /\ InFlightBelow(MaxRelayOutbox)
       /\ \E data \in DrawStartInputs : HandleDrawStart(Solo, data)
       /\ UNCHANGED <<recent, canvas, verdict, websocket>>
    \/ /\ InFlightBelow(MaxRelayOutbox)
       /\ \E data \in DrawMoveInputs : HandleDrawMove(Solo, data)
       /\ UNCHANGED <<recent, canvas, verdict, websocket>>
    \/ /\ InFlightBelow(MaxRelayOutbox)
       /\ \E data \in DrawEndInputs :
             /\ data = BrushStroke => CommitsBelow(MaxRelayCommits)
             /\ HandleDrawEnd(Solo, data)
       /\ UNCHANGED <<recent, canvas, verdict, websocket>>
    \/ /\ InFlightBelow(MaxRelayOutbox) /\ CommitsBelow(MaxRelayCommits)
       /\ HandleClear(Solo)
       /\ UNCHANGED <<recent, canvas, verdict, websocket>>
    \/ /\ InFlightBelow(MaxRelayOutbox)
       /\ \E cursor \in {<<50, 60>>, <<>>} : HandleCursorMove(Solo, cursor)
       /\ UNCHANGED <<recent, canvas, verdict, websocket>>
    \/ /\ InFlightBelow(MaxRelayOutbox)
       /\ \E t \in {"UNDO", "REDO"} : HandleUndoRedo(Solo, t)
       /\ UNCHANGED <<recent, canvas, verdict, websocket>>
    \/ /\ InFlightBelow(MaxRelayOutbox)
       /\ \E wellFormed \in BOOLEAN : HandleUnknown(Solo, wellFormed)
       /\ UNCHANGED <<recent, canvas, verdict, websocket>>
    \/ InFlightBelow(MaxRelayOutbox) /\ HandleStateSync(Solo) /\ UNCHANGED <<recent, canvas, verdict, websocket>>
    \/ (\E c \in Pair : HandleMessage(c)) /\ UNCHANGED <<recent, canvas, verdict, websocket>>

SpecRelay == Init /\ [][NextRelay]_vars

\* SpecStroke: one participant whose connection closes while strokes are in
\* flight.  Stroke "s1" is started, streamed and ended; stroke "s2" is
\* started and streamed and never ended.
NextStroke ==
    \/ ChannelsBelow(MaxStrokeOutbox) /\ Connect(Solo) /\ UNCHANGED <<recent, canvas, verdict, websocket>>
    \/ ChannelsBelow(MaxStrokeOutbox) /\ Disconnect(Solo) /\ UNCHANGED <<recent, canvas, verdict, websocket>>
    \/ /\ ChannelsBelow(MaxStrokeOutbox)
       /\ \E data \in {BrushStroke, AbandonedStroke} : HandleDrawStart(Solo, data)
       /\ UNCHANGED <<recent, canvas, verdict, websocket>>
    \/ /\ ChannelsBelow(MaxStrokeOutbox)
       /\ \E data \in {BareMove, AbandonedStroke} : HandleDrawMove(Solo, data)
       /\ UNCHANGED <<recent, canvas, verdict, websocket>>
    \/ /\ ChannelsBelow(MaxStrokeOutbox) /\ CommitsBelow(MaxStrokeCommits)
       /\ \E data \in {BrushStroke, EraserStroke} : HandleDrawEnd(Solo, data)
       /\ UNCHANGED <<recent, canvas, verdict, websocket>>
    \/ /\ ChannelsBelow(MaxStrokeOutbox)
       /\ \E t \in {"UNDO", "REDO"} : HandleUndoRedo(Solo, t)
       /\ UNCHANGED <<recent, canvas, verdict, websocket>>
    \/ ChannelsBelow(MaxStrokeOutbox) /\ HandleStateSync(Solo) /\ UNCHANGED <<recent, canvas, verdict, websocket>>
    \/ HandleMessage(Solo) /\ UNCHANGED <<recent, canvas, verdict, websocket>>

SpecStroke == Init /\ [][NextStroke]_vars

\* SpecRace: two participants whose commits the server handles in any order.
NextRace ==
    \/ /\ ChannelsBelow(MaxRaceOutbox)
       /\ \E c \in Pair : Connect(c)
       /\ UNCHANGED <<recent, canvas, verdict, websocket>>
    \/ /\ ChannelsBelow(MaxRaceOutbox)
       /\ \E c \in Pair : Disconnect(c)
       /\ UNCHANGED <<recent, canvas, verdict, websocket>>
    \/ /\ ChannelsBelow(MaxRaceOutbox) /\ CommitsBelow(MaxRaceCommits)
       /\ \E c \in Pair : HandleDrawEnd(c, BrushStroke)
       /\ UNCHANGED <<recent, canvas, verdict, websocket>>
    \/ /\ ChannelsBelow(MaxRaceOutbox) /\ CommitsBelow(MaxRaceCommits)
       /\ \E c \in Pair : HandleClear(c)
       /\ UNCHANGED <<recent, canvas, verdict, websocket>>
    \/ (\E c \in Pair : HandleMessage(c)) /\ UNCHANGED <<recent, canvas, verdict, websocket>>

SpecRace == Init /\ [][NextRace]_vars

\* SpecLobby: more participants than colors, coming and going.
NextLobby ==
    \/ /\ ChannelsBelow(MaxLobbyOutbox)
       /\ \E c \in Clients : Connect(c)
       /\ UNCHANGED <<recent, canvas, verdict, websocket>>
    \/ /\ ChannelsBelow(MaxLobbyOutbox)
       /\ \E c \in Clients : Disconnect(c)
       /\ UNCHANGED <<recent, canvas, verdict, websocket>>
    \/ (\E c \in Clients : HandleMessage(c)) /\ UNCHANGED <<recent, canvas, verdict, websocket>>

SpecLobby == Init /\ [][NextLobby]_vars

\* SpecMirror: one participant whose mirror also stages local entries.
NextMirror ==
    \/ ChannelsBelow(MaxMirrorOutbox) /\ Connect(Solo) /\ UNCHANGED <<recent, canvas, verdict, websocket>>
    \/ ChannelsBelow(MaxMirrorOutbox) /\ Disconnect(Solo) /\ UNCHANGED <<recent, canvas, verdict, websocket>>
    \/ /\ ChannelsBelow(MaxMirrorOutbox) /\ CommitsBelow(MaxMirrorCommits)
       /\ HandleDrawEnd(Solo, BrushStroke)
       /\ UNCHANGED <<recent, canvas, verdict, websocket>>
    \/ /\ ChannelsBelow(MaxMirrorOutbox)
       /\ \E t \in {"UNDO", "REDO"} : HandleUndoRedo(Solo, t)
       /\ UNCHANGED <<recent, canvas, verdict, websocket>>
    \/ RequestStateSync(Solo) /\ UNCHANGED <<recent, canvas, verdict, websocket>>
    \/ ChannelsBelow(MaxMirrorOutbox) /\ HandleStateSync(Solo) /\ UNCHANGED <<recent, canvas, verdict, websocket>>
    \/ HandleMessage(Solo) /\ UNCHANGED <<recent, canvas, verdict, websocket>>
    \/ (\E entry \in StagedEntries : StageOptimistic(Solo, entry)) /\ UNCHANGED <<recent, canvas, verdict, websocket>>

SpecMirror == Init /\ [][NextMirror]_vars

\* SpecConfirm: a participant that stages an entry for its next stroke and
\* ends the stroke, while a second participant undoes and redoes.
NextConfirm ==
    \/ /\ InFlightBelow(MaxConfirmOutbox)
       /\ \E c \in Pair : Connect(c)
       /\ UNCHANGED <<recent, canvas, verdict, websocket>>
    \/ /\ InFlightBelow(MaxConfirmOutbox) /\ CommitsBelow(MaxConfirmCommits)
       /\ HandleDrawEnd(Solo, NthStroke(room.sequenceCounter + 1))
       /\ UNCHANGED <<recent, canvas, verdict, websocket>>
    \/ /\ InFlightBelow(MaxConfirmOutbox)
       /\ \E t \in {"UNDO", "REDO"} : HandleUndoRedo(Peer, t)
       /\ UNCHANGED <<recent, canvas, verdict, websocket>>
    \/ RequestStateSync(Solo) /\ UNCHANGED <<recent, canvas, verdict, websocket>>
    \/ InFlightBelow(MaxConfirmOutbox) /\ HandleStateSync(Solo) /\ UNCHANGED <<recent, canvas, verdict, websocket>>
    \/ (\E c \in Pair : HandleMessage(c)) /\ UNCHANGED <<recent, canvas, verdict, websocket>>
    \/ /\ CommitsBelow(MaxConfirmCommits)
       /\ StageOptimistic(Solo, NthEntry(room.sequenceCounter + 1))
       /\ UNCHANGED <<recent, canvas, verdict, websocket>>

SpecConfirm == Init /\ [][NextConfirm]_vars

\* SpecTwin: the server's log and a client's mirror start from the same
\* (operations, pointer), get the same appends and the same pointer moves.
\* The histories are those the server can hold: consecutive commits first ..
\* first + n - 1, with any pointer.
HistoryOf(first, n) ==
    [i \in 1..n |-> [id |-> first + i - 1, userId |-> Solo,
                     sequenceNumber |-> first + i - 1, type |-> "draw",
                     data |-> NoPayload, clientOperationId |-> ""]]
InitTwin ==
    /\ \E first \in 0..1, n \in 0..MAX_OPERATIONS, pointer \in -1..(MAX_OPERATIONS - 1) :
          /\ pointer <= n - 1
          /\ room = [operations |-> HistoryOf(first, n), pointer |-> pointer,
                     sequenceCounter |-> first + n, users |-> {Solo}]
          /\ idCounter = first + n
          /\ state = [c \in Clients |->
                        IF c = Solo
                        THEN [NewState EXCEPT !.operations = HistoryOf(first, n),
                                              !.pointer = pointer]
                        ELSE NewState]
    /\ outbox = [c \in Clients |-> <<>>]
    /\ resync = [c \in Clients |-> FALSE]
    /\ activeStrokes = [c \in Clients |-> {}]
    /\ colorPool = COLOR_POOL
    /\ user = [c \in Clients |-> NoUser]
    /\ issued = <<>>
    /\ discarded = {}
    /\ recent = <<>>
    /\ canvas = [c \in Clients |-> NewCanvas]
    /\ verdict = <<>>
    /\ websocket = NewWebSocket

NextTwin ==
    \/ /\ CommitsBelow(MaxTwinCommits)
       /\ \E optimistic \in BOOLEAN : AppendOnBoth(Solo, optimistic)
       /\ UNCHANGED <<recent, canvas, verdict, websocket>>
    \/ /\ \E value \in -1..(MAX_OPERATIONS - 1) : SetPointerOnBoth(Solo, value)
       /\ UNCHANGED <<recent, canvas, verdict, websocket>>

SpecTwin == InitTwin /\ [][NextTwin]_vars

\* SpecCanvas: one participant with a canvas: strokes, clears, undo and redo
\* past the retained-history cap.
NextCanvas ==
    \/ ChannelsBelow(MaxCanvasOutbox) /\ Connect(Solo) /\ UNCHANGED <<recent, canvas, verdict, websocket>>
    \/ /\ ChannelsBelow(MaxCanvasOutbox) /\ CommitsBelow(MaxCanvasCommits)
       /\ HandleDrawEnd(Solo, BrushStroke)
       /\ UNCHANGED <<recent, canvas, verdict, websocket>>
    \/ /\ ChannelsBelow(MaxCanvasOutbox) /\ CommitsBelow(MaxCanvasCommits)
       /\ HandleClear(Solo)
       /\ UNCHANGED <<recent, canvas, verdict, websocket>>
    \/ /\ ChannelsBelow(MaxCanvasOutbox)
       /\ \E t \in {"UNDO", "REDO"} : HandleUndoRedo(Solo, t)
       /\ UNCHANGED <<recent, canvas, verdict, websocket>>
    \/ HandleMessageOnCanvas(Solo) /\ UNCHANGED <<recent, verdict, websocket>>

SpecCanvas == Init /\ [][NextCanvas]_vars

\* SpecCache: getCheckpoint on the caches saveCheckpoint builds (positions
\* ascending, at most CheckpointCap), looked up by the rebuild at every
\* pointer of a history of strokes.  At the start the strokes are all drawn
\* and the pointer is at the end.
StrokeHistory(n) ==
    [i \in 1..n |-> [HistoryOf(0, n)[i] EXCEPT
                        !.data = [path |-> BrushStroke.path, color |-> BrushStroke.color,
                                  width |-> BrushStroke.width, tool |-> BrushStroke.tool]]]
\* The image of the strokes 0 .. pointer.
ImageAt(pointer) == [i \in 1..(pointer + 1) |-> i - 1]
CheckpointAt(pointer) == [pointer |-> pointer, imageData |-> ImageAt(pointer)]
Caches ==
    {<<>>}
    \cup {<<CheckpointAt(p)>> : p \in 0..MaxCachePointer}
    \cup {<<CheckpointAt(p), CheckpointAt(q)>> :
             p \in 0..MaxCachePointer, q \in 1..MaxCachePointer}

InitCache ==
    /\ room = NewRoom
    /\ idCounter = 0
    /\ outbox = [c \in Clients |-> <<>>]
    /\ resync = [c \in Clients |-> FALSE]
    /\ activeStrokes = [c \in Clients |-> {}]
    /\ colorPool = COLOR_POOL
    /\ user = [c \in Clients |-> NoUser]
    /\ issued = <<>>
    /\ discarded = {}
    /\ recent = <<>>
    /\ verdict = <<>>
    /\ websocket = NewWebSocket
    /\ \E n \in 1..MAX_OPERATIONS, checkpoints \in Caches :
          /\ Len(checkpoints) <= CheckpointCap
          /\ \A i \in 1..(Len(checkpoints) - 1) :
                checkpoints[i].pointer < checkpoints[i + 1].pointer
          /\ state = [c \in Clients |->
                        IF c = Solo
                        THEN [NewState EXCEPT !.operations = StrokeHistory(n),
                                              !.pointer = n - 1]
                        ELSE NewState]
          /\ canvas = [c \in Clients |->
                         IF c = Solo
                         THEN [surface |-> ImageAt(n - 1), lastRenderedPointer |-> n - 1,
                               checkpoints |-> checkpoints]
                         ELSE NewCanvas]

\* saveCheckpoint(pointer, imageData) with a position beyond those stored.
SaveCheckpointAt(c, pointer) ==
    /\ \A i \in 1..Len(canvas[c].checkpoints) : canvas[c].checkpoints[i].pointer < pointer
    /\ canvas' = [canvas EXCEPT ![c].checkpoints =
                     SaveCheckpoint(@, pointer, ImageAt(pointer))]
    /\ UNCHANGED <<room, idCounter, outbox, resync, state, activeStrokes, colorPool,
                   user, issued, discarded>>

\* setPointer(value): the 'pointerChanged' listener rebuilds, which looks the
\* checkpoint up.
MovePointerOnCanvas(c, value) ==
    /\ state' = [state EXCEPT ![c] = ClientSetPointer(@, value)]
    /\ canvas' = [canvas EXCEPT ![c] = SetPointerOnCanvas(@, state[c], value)]
    /\ UNCHANGED <<room, idCounter, outbox, resync, activeStrokes, colorPool, user,
                   issued, discarded>>

NextCache ==
    \/ (\E pointer \in 0..MaxCachePointer : SaveCheckpointAt(Solo, pointer))
       /\ UNCHANGED <<recent, verdict, websocket>>
    \/ (\E value \in -1..(MAX_OPERATIONS - 1) : MovePointerOnCanvas(Solo, value))
       /\ UNCHANGED <<recent, verdict, websocket>>

SpecCache == InitCache /\ [][NextCache]_vars

\* SpecJoin: a participant that commits strokes and clears and moves the
\* pointer, and a second one that joins and leaves meanwhile.
NextJoin ==
    \/ /\ InFlightBelow(MaxJoinOutbox)
       /\ \E c \in Pair : Connect(c)
       /\ UNCHANGED <<recent, canvas, verdict, websocket>>
    \/ InFlightBelow(MaxJoinOutbox) /\ Disconnect(Peer)
       /\ UNCHANGED <<recent, canvas, verdict, websocket>>
    \/ /\ InFlightBelow(MaxJoinOutbox) /\ CommitsBelow(MaxJoinCommits)
       /\ HandleDrawEnd(Solo, BrushStroke)
       /\ UNCHANGED <<recent, canvas, verdict, websocket>>
    \/ /\ InFlightBelow(MaxJoinOutbox) /\ CommitsBelow(MaxJoinCommits)
       /\ HandleClear(Solo)
       /\ UNCHANGED <<recent, canvas, verdict, websocket>>
    \/ /\ InFlightBelow(MaxJoinOutbox)
       /\ \E t \in {"UNDO", "REDO"} : HandleUndoRedo(Solo, t)
       /\ UNCHANGED <<recent, canvas, verdict, websocket>>
    \/ (\E c \in Pair : HandleMessage(c)) /\ UNCHANGED <<recent, canvas, verdict, websocket>>

SpecJoin == Init /\ [][NextJoin]_vars

\* constants.js of the client: TOOLS.
CLIENT_TOOLS == {"brush", "eraser", "line", "rect", "ellipse"}

\* distance(a, b) >= 1.8, on integer coordinates: the squares compared.
AtLeastTolerance(a, b) ==
    ((a[1] - b[1]) * (a[1] - b[1]) + (a[2] - b[2]) * (a[2] - b[2])) * 100 >= 324

\* simplifyPath(path): the loop over the inner points, from index i on.
RECURSIVE SimplifyFrom(_, _, _)
SimplifyFrom(path, i, simplified) ==
    IF i > Len(path) - 1 THEN simplified
    ELSE SimplifyFrom(path, i + 1,
                      IF AtLeastTolerance(path[i], simplified[Len(simplified)])
                      THEN Append(simplified, path[i]) ELSE simplified)
SimplifyPath(path) ==
    IF Len(path) < 3 THEN path
    ELSE Append(SimplifyFrom(path, 2, <<path[1]>>), path[Len(path)])

\* What the pointer drew before it is released: the path of a freehand
\* stroke, the two corners of a shape.
DrawnPath == << <<50, 60>>, <<51, 60>>, <<55, 70>> >>
ShapeStart == <<50, 60>>
ShapeEnd == <<55, 70>>

\* finalizeStroke: the data of the DRAW_END it sends for the active stroke
\* of the tool (shapeType is read by no code of the server).
FinalizeStroke(tool) ==
    [clientOperationId |-> "s1", point |-> <<>>, points |-> <<>>,
     path |-> IF tool \in {"brush", "eraser"} THEN SimplifyPath(DrawnPath)
              ELSE <<ShapeStart, ShapeEnd>>,
     color |-> BrushStroke.color, tool |-> tool, width |-> BrushStroke.width]

\* SpecTool: one participant that finalizes strokes with every tool its
\* toolbar offers, and undoes and redoes.
NextTool ==
    \/ InFlightBelow(MaxToolOutbox) /\ Connect(Solo)
       /\ UNCHANGED <<recent, canvas, verdict, websocket>>
    \/ /\ InFlightBelow(MaxToolOutbox) /\ CommitsBelow(MaxToolCommits)
       /\ \E tool \in CLIENT_TOOLS : HandleDrawEnd(Solo, FinalizeStroke(tool))
       /\ UNCHANGED <<recent, canvas, verdict, websocket>>
    \/ /\ InFlightBelow(MaxToolOutbox)
       /\ \E t \in {"UNDO", "REDO"} : HandleUndoRedo(Solo, t)
       /\ UNCHANGED <<recent, canvas, verdict, websocket>>
    \/ HandleMessage(Solo) /\ UNCHANGED <<recent, canvas, verdict, websocket>>

SpecTool == Init /\ [][NextTool]_vars

\* The committed operation of the n-th stroke.
NthOperation(n) == [NthEntry(n) EXCEPT !.id = n, !.sequenceNumber = n]

\* The exported functions of state.js called on the mirror of one client.
CallAddOperation(c, operation, optimistic) ==
    /\ state' = [state EXCEPT ![c] = AddOperation(@, operation, optimistic)]
    /\ UNCHANGED <<room, idCounter, outbox, resync, activeStrokes, colorPool, user,
                   issued, discarded>>
\* confirmOperation pushes without trimming; the calls stop one operation
\* beyond the cap.
CallConfirmOperation(c, serverOperation) ==
    /\ Len(state[c].operations) <= MAX_OPERATIONS
    /\ state' = [state EXCEPT ![c] = ConfirmOperation(@, serverOperation)]
    /\ UNCHANGED <<room, idCounter, outbox, resync, activeStrokes, colorPool, user,
                   issued, discarded>>
CallSetPointer(c, value) ==
    /\ state' = [state EXCEPT ![c] = ClientSetPointer(@, value)]
    /\ UNCHANGED <<room, idCounter, outbox, resync, activeStrokes, colorPool, user,
                   issued, discarded>>
CallResetHistory(c) ==
    /\ state' = [state EXCEPT ![c] = ResetHistory(@)]
    /\ UNCHANGED <<room, idCounter, outbox, resync, activeStrokes, colorPool, user,
                   issued, discarded>>

\* SpecState: the state module of one client under every sequence of calls.
NextState ==
    \/ (\E n \in 1..MaxStateStrokes : CallAddOperation(Solo, NthOperation(n), FALSE))
       /\ UNCHANGED <<recent, canvas, verdict, websocket>>
    \/ (\E n \in 1..MaxStateStrokes : CallAddOperation(Solo, NthEntry(n), TRUE))
       /\ UNCHANGED <<recent, canvas, verdict, websocket>>
    \/ (\E n \in 1..MaxStateStrokes : CallConfirmOperation(Solo, NthOperation(n)))
       /\ UNCHANGED <<recent, canvas, verdict, websocket>>
    \/ (\E value \in -2..(MAX_OPERATIONS + 1) : CallSetPointer(Solo, value))
       /\ UNCHANGED <<recent, canvas, verdict, websocket>>
    \/ CallResetHistory(Solo) /\ UNCHANGED <<recent, canvas, verdict, websocket>>

SpecState == Init /\ [][NextState]_vars

\* The operation of the n-th stroke as the server relays it, and the first
\* one again (same id) carrying the wide stroke's data.
RedeliverInputs ==
    {NthOperation(n) : n \in 1..MaxRedeliverStrokes}
    \cup {[NthOperation(1) EXCEPT !.data.width = WideStroke.width]}

\* addOperation(operation, {optimistic}) at a client whose canvas listens to
\* the mirror.
CallAddOperationOnCanvas(c, operation, optimistic) ==
    /\ CallAddOperation(c, operation, optimistic)
    /\ canvas' = [canvas EXCEPT
                     ![c] = AddOperationOnCanvas(@, state[c], operation, optimistic)]
\* setPointer(value) at such a client.
CallSetPointerOnCanvas(c, value) ==
    /\ CallSetPointer(c, value)
    /\ canvas' = [canvas EXCEPT ![c] = SetPointerOnCanvas(@, state[c], value)]

\* The highest sequence number in the mirror of c, 0 when it holds none: the
\* server numbers the operations it relays upwards from there.
HighestHeld(c) ==
    LET numbers == {state[c].operations[i].sequenceNumber :
                       i \in 1..Len(state[c].operations)} \cup {0}
    IN  CHOOSE n \in numbers : \A m \in numbers : m <= n

\* The bound of SpecRedeliver: an operation the mirror does not hold is
\* handed over while fewer than n strokes are on the surface.
DrawnBelow(c, operation, n) ==
    (\A i \in 1..Len(state[c].operations) : state[c].operations[i].id # operation.id)
    => Len(canvas[c].surface) < n

\* SpecRedeliver: one client with a canvas that is handed committed
\* operations, some of them again, stages entries of its own and moves its
\* pointer.
NextRedeliver ==
    \/ (\E operation \in RedeliverInputs :
           /\ operation.sequenceNumber <= HighestHeld(Solo) + 1
           /\ DrawnBelow(Solo, operation, MaxRedeliverDrawn)
           /\ CallAddOperationOnCanvas(Solo, operation, FALSE))
       /\ UNCHANGED <<recent, verdict, websocket>>
    \/ (\E n \in 1..MaxRedeliverStrokes :
           /\ n <= HighestHeld(Solo) + 1
           /\ DrawnBelow(Solo, NthEntry(n), MaxRedeliverDrawn)
           /\ CallAddOperationOnCanvas(Solo, NthEntry(n), TRUE))
       /\ UNCHANGED <<recent, verdict, websocket>>
    \/ (\E value \in -1..(MAX_OPERATIONS - 1) : CallSetPointerOnCanvas(Solo, value))
       /\ UNCHANGED <<recent, verdict, websocket>>

SpecRedeliver == Init /\ [][NextRedeliver]_vars

\* The bounds of SpecSocket: WebSockets made and messages the page sent (the
\* STATE_SYNC request of each open is not one of them).
SocketsBelow(n) == Len(websocket.readyState) < n
SendsBelow(n) ==
    websocket.sends - Cardinality({i \in 1..Len(websocket.transmitted) :
                          websocket.transmitted[i].payload.type = "STATE_SYNC"}) < n

\* SpecSocket: the connection of one client that opens, fails to open, is
\* lost and is made again, while the page sends strokes and undos.
NextSocket ==
    \/ InitWebSocket
    \/ \E s \in 1..MaxSockets : SocketOpens(s)
    \/ \E s \in 1..MaxSockets : SocketCloses(s)
    \/ \E i \in 1..MaxSockets : SocketsBelow(MaxSockets) /\ TimerFires(i)
    \/ \E type \in {"DRAW_END", "UNDO"} : SendsBelow(MaxSocketSends) /\ CallSend(type)

SpecSocket == Init /\ [][NextSocket]_vars

\* SpecReconnect: the same connection through more failed attempts than
\* BACKOFF_STEPS has steps, with little to send.
NextReconnect ==
    \/ InitWebSocket
    \/ \E s \in 1..MaxReconnectSockets : SocketOpens(s)
    \/ \E s \in 1..MaxReconnectSockets : SocketCloses(s)
    \/ \E i \in 1..MaxReconnectSockets :
          SocketsBelow(MaxReconnectSockets) /\ TimerFires(i)
    \/ SendsBelow(MaxReconnectSends) /\ CallSend("UNDO")

SpecReconnect == Init /\ [][NextReconnect]_vars

\* SpecClear: one participant that draws, clears, undoes and redoes until
\* the log is full.
NextClear ==
    \/ InFlightBelow(MaxClearOutbox) /\ Connect(Solo)
       /\ UNCHANGED <<recent, canvas, verdict, websocket>>
    \/ /\ InFlightBelow(MaxClearOutbox) /\ CommitsBelow(MaxClearCommits)
       /\ HandleDrawEnd(Solo, BrushStroke)
       /\ UNCHANGED <<recent, canvas, verdict, websocket>>
    \/ /\ InFlightBelow(MaxClearOutbox) /\ CommitsBelow(MaxClearCommits)
       /\ HandleClear(Solo)
       /\ UNCHANGED <<recent, canvas, verdict, websocket>>
    \/ /\ InFlightBelow(MaxClearOutbox)
       /\ \E t \in {"UNDO", "REDO"} : HandleUndoRedo(Solo, t)
       /\ UNCHANGED <<recent, canvas, verdict, websocket>>
    \/ HandleMessage(Solo) /\ UNCHANGED <<recent, canvas, verdict, websocket>>

SpecClear == Init /\ [][NextClear]_vars

\* A stroke of one point, with an id and a color of its own.
DotStroke ==
    [BrushStroke EXCEPT !.clientOperationId = "s2", !.point = <<7, 8>>,
                        !.points = << <<7, 8>> >>, !.path = << <<7, 8>> >>,
                        !.color = <<"#", "a", "B", "c">>]
\* The DRAW_END messages of SpecEnd.
EndInputs == {BrushStroke, EraserStroke, DotStroke, WideStroke}

\* SpecEnd: two participants that end strokes of several kinds, one of them
\* after a DRAW_START, while operations are undone.
NextEnd ==
    \/ /\ InFlightBelow(MaxEndOutbox)
       /\ \E c \in Pair : Connect(c)
       /\ UNCHANGED <<recent, canvas, verdict, websocket>>
    \/ InFlightBelow(MaxEndOutbox) /\ Disconnect(Peer)
       /\ UNCHANGED <<recent, canvas, verdict, websocket>>
    \/ InFlightBelow(MaxEndOutbox) /\ HandleDrawStart(Solo, BrushStroke)
       /\ UNCHANGED <<recent, canvas, verdict, websocket>>
    \/ /\ InFlightBelow(MaxEndOutbox) /\ CommitsBelow(MaxEndCommits)
       /\ \E c \in Pair, data \in EndInputs :
             /\ c = Peer => data = EraserStroke
             /\ HandleDrawEnd(c, data)
       /\ UNCHANGED <<recent, canvas, verdict, websocket>>
    \/ InFlightBelow(MaxEndOutbox) /\ HandleUndoRedo(Solo, "UNDO")
       /\ UNCHANGED <<recent, canvas, verdict, websocket>>
    \/ (\E c \in Pair : HandleMessage(c)) /\ UNCHANGED <<recent, canvas, verdict, websocket>>

SpecEnd == Init /\ [][NextEnd]_vars

\* SpecValidate: validateOperationPayload called with every message type
\* and with data of every combination of the fields below.
MESSAGE_TYPES ==
    {"DRAW_START", "DRAW_MOVE", "DRAW_END", "CLEAR", "CURSOR_MOVE", "UNDO", "REDO",
     "STATE_SYNC", "USER_JOINED", "USER_LEFT", "NAME_CHANGE", "ERROR"}
PayloadIds == {"", "s1"}
PayloadPaths ==
    {<<>>, << <<50, 60>>, <<55, 70>> >>, << <<MIN_COORDINATE, MAX_COORDINATE>> >>,
     << <<50, 60>>, <<55, MAX_COORDINATE + 1>> >>, << <<MIN_COORDINATE - 1, 60>> >>}
PayloadColors ==
    {<<>>, <<"#", "1", "2", "3", "4", "5", "6">>, <<"#", "a", "B", "c">>,
     <<"#", "1", "2">>, <<"#", "1", "2", "3", "4", "5">>,
     <<"1", "2", "3", "4", "5", "6", "7">>, <<"#", "1", "2", "g">>,
     <<"#", "1", "2", "3", "4", "5", "6", "7", "8", "9">>}
PayloadTools == {"", "brush", "eraser", "line"}
PayloadWidths == {0, 1, 20, 21}
Payloads ==
    {[clientOperationId |-> id,
      point |-> IF path = <<>> THEN <<>> ELSE path[1],
      points |-> path, path |-> path, color |-> color, tool |-> tool,
      width |-> width] :
        id \in PayloadIds, path \in PayloadPaths, color \in PayloadColors,
        tool \in PayloadTools, width \in PayloadWidths}

InitValidate ==
    /\ room = NewRoom
    /\ idCounter = 0
    /\ outbox = [c \in Clients |-> <<>>]
    /\ resync = [c \in Clients |-> FALSE]
    /\ state = [c \in Clients |-> NewState]
    /\ activeStrokes = [c \in Clients |-> {}]
    /\ colorPool = COLOR_POOL
    /\ user = [c \in Clients |-> NoUser]
    /\ issued = <<>>
    /\ discarded = {}
    /\ recent = <<>>
    /\ canvas = [c \in Clients |-> NewCanvas]
    /\ \E type \in MESSAGE_TYPES, data \in Payloads :
          verdict = [type |-> type, data |-> data, result |-> <<>>]
    /\ websocket = NewWebSocket

\* const validation = validateOperationPayload(type, data)
Validate ==
    /\ verdict.result = <<>>
    /\ verdict' = [verdict EXCEPT
                         !.result = <<ValidateOperationPayload(verdict.type,
                                                               verdict.data)>>]
    /\ UNCHANGED <<room, idCounter, outbox, resync, state, activeStrokes, colorPool,
                   user, issued, discarded, recent, canvas, websocket>>

NextValidate == Validate

SpecValidate == InitValidate /\ [][NextValidate]_vars

\* The names of sendNameChange in SpecName.
Names == {"Alice", "Bob"}

\* SpecName: two participants that come, go and rename themselves.
NextName ==
    \/ /\ InFlightBelow(MaxNameOutbox)
       /\ \E c \in Pair : Connect(c)
       /\ UNCHANGED <<recent, canvas, verdict, websocket>>
    \/ /\ InFlightBelow(MaxNameOutbox)
       /\ \E c \in Pair : Disconnect(c)
       /\ UNCHANGED <<recent, canvas, verdict, websocket>>
    \/ /\ InFlightBelow(MaxNameOutbox)
       /\ \E c \in Pair, name \in Names : HandleNameChange(c, name)
       /\ UNCHANGED <<recent, canvas, verdict, websocket>>
    \/ (\E c \in Pair : HandleMessage(c)) /\ UNCHANGED <<recent, canvas, verdict, websocket>>

SpecName == Init /\ [][NextName]_vars

\* SpecShare: two participants that start and stream the stroke of the
\* same clientOperationId, each on its own connection, and reconnect.
NextShare ==
    \/ /\ InFlightBelow(MaxShareOutbox)
       /\ \E c \in Pair : Connect(c)
       /\ UNCHANGED <<recent, canvas, verdict, websocket>>
    \/ /\ InFlightBelow(MaxShareOutbox)
       /\ \E c \in Pair : Disconnect(c)
       /\ UNCHANGED <<recent, canvas, verdict, websocket>>
    \/ /\ InFlightBelow(MaxShareOutbox)
       /\ \E c \in Pair : HandleDrawStart(c, BrushStroke)
       /\ UNCHANGED <<recent, canvas, verdict, websocket>>
    \/ /\ InFlightBelow(MaxShareOutbox)
       /\ \E c \in Pair, data \in ShareMoveInputs : HandleDrawMove(c, data)
       /\ UNCHANGED <<recent, canvas, verdict, websocket>>
    \/ (\E c \in Pair : HandleMessage(c)) /\ UNCHANGED <<recent, canvas, verdict, websocket>>

SpecShare == Init /\ [][NextShare]_vars

(* ------------------------------ properties ----------------------------- *)
Seqs(ops) == [i \in 1..Len(ops) |-> ops[i].sequenceNumber]
LastOf(s) == s[Len(s)]

\* The step is a commit: buildOperation took a new id.
IsCommitStep == idCounter' = idCounter + 1
\* The message the step put into c's channel, if any.
Sent(c) ==
    IF Len(outbox'[c]) > Len(outbox[c]) THEN {LastOf(outbox'[c])} ELSE {}
\* Operations committed so far that left the log from the front.
TrimmedCount == Len(issued) - Len(room.operations) - Cardinality(discarded)

\* C1: the operations held in the server log have strictly increasing
\* sequenceNumber by index, whatever connects, commits, undos, redos and
\* disconnects came before.
C1_LogStrictlyIncreasing ==
    \A i, j \in 1..Len(room.operations) :
        i < j => room.operations[i].sequenceNumber < room.operations[j].sequenceNumber

\* C1 witness: a log whose numbers have a gap left by a truncation.
C1_Witness ==
    /\ Len(room.operations) >= 2
    /\ discarded # {}
    /\ \E i \in 1..(Len(room.operations) - 1) :
          room.operations[i + 1].sequenceNumber > room.operations[i].sequenceNumber + 1

\* C2: an append while pointer < length-1 removes every operation with
\* index > pointer, puts the new operation at the end and the pointer on it
\* (pointer = -1: the whole log goes, the result is [e] with pointer 0).
C2_AppendTruncatesFuture ==
    [][(IsCommitStep /\ room.pointer < Len(room.operations) - 1) =>
          /\ Len(room'.operations) = room.pointer + 2
          /\ SubSeq(room'.operations, 1, room.pointer + 1)
                = SubSeq(room.operations, 1, room.pointer + 1)
          /\ LastOf(room'.operations).id = idCounter
          /\ room'.pointer = Len(room'.operations) - 1]_vars

\* C2 witness: [0,1] cut at pointer -1 by 2, then [2,3] cut at pointer 0 by 4.
C2_Witness ==
    /\ Seqs(room.operations) = <<2, 4>>
    /\ room.pointer = 1
    /\ discarded = {0, 1, 3}

\* C4: the sequence counter never decreases and no two operations ever
\* committed, truncated and trimmed ones included, got the same number.
C4_IssuedDistinct ==
    \A i, j \in 1..Len(issued) : i # j => issued[i] # issued[j]
C4_CounterNeverRewinds ==
    /\ []C4_IssuedDistinct
    /\ [][room'.sequenceCounter >= room.sequenceCounter]_vars

\* C4 witness: commits went on after a truncation and after a trim.
C4_Witness ==
    /\ discarded # {}
    /\ TrimmedCount > 0
    /\ room.sequenceCounter = Len(issued)

\* C5: -1 <= pointer <= operations.length - 1 in every server state.
C5_PointerInRange ==
    /\ room.pointer \in Int
    /\ -1 <= room.pointer
    /\ room.pointer <= Len(room.operations) - 1

\* C5 witness: after a trim, with the pointer moved back by undo.
C5_Witness ==
    /\ TrimmedCount > 0
    /\ Len(room.operations) = MAX_OPERATIONS
    /\ room.pointer = -1

\* C7: an append that makes the log exceed MAX_OPERATIONS by k removes the
\* k oldest operations, keeps the others in order without gaps, lowers the
\* pointer by k (not below -1); the log never holds more than
\* MAX_OPERATIONS after an append.
C7_KeptBeforePush == 
    IF room.pointer < Len(room.operations) - 1
    THEN SubSeq(room.operations, 1, room.pointer + 1)
    ELSE room.operations
C7_TrimDropsOldest ==
    /\ [](Len(room.operations) <= MAX_OPERATIONS)
    /\ [][IsCommitStep =>
            LET kept == C7_KeptBeforePush
                k == Max(0, Len(kept) + 1 - MAX_OPERATIONS)
            IN  /\ Len(room'.operations) = Len(kept) + 1 - k
                /\ \A i \in 1..(Len(kept) - k) : room'.operations[i] = kept[i + k]
                /\ LastOf(room'.operations).id = idCounter
                /\ room'.pointer = Max(-1, Len(kept) - k)]_vars

\* C7 witness: a full log whose oldest operations were trimmed away.
C7_Witness ==
    /\ TrimmedCount >= 2
    /\ Len(room.operations) = MAX_OPERATIONS
    /\ room.pointer = MAX_OPERATIONS - 1

\* C8: a STATE_SYNC the server sends carries operations[0..pointer] and the
\* pointer of one and the same log state, and no operation beyond the pointer.
C8_SnapshotConsistent ==
    [][\A c \in Clients : \A m \in Sent(c) :
          m.type = "STATE_SYNC" =>
             /\ m.pointer = room'.pointer
             /\ Len(m.operations) = m.pointer + 1
             /\ \A i \in 1..Len(m.operations) : m.operations[i] = room'.operations[i]]_vars

\* C8 witness: a snapshot in flight, taken while undone operations exist.
C8_Witness ==
    \E i \in 1..Len(outbox[Solo]) :
        /\ outbox[Solo][i].type = "STATE_SYNC"
        /\ outbox[Solo][i].pointer >= 0
        /\ outbox[Solo][i].pointer < Len(room.operations) - 1

\* The last four log mutations were commit X, commit Y, undo, commit Z.
ScenarioDone ==
    /\ Len(recent) = 4
    /\ recent[1].kind = "commit"
    /\ recent[2].kind = "commit"
    /\ recent[3].kind = "undo"
    /\ recent[4].kind = "commit"
ScenarioShape ==
    LET snapshot == GetStateSnapshot(room).operations
    IN  /\ recent[1].id \in Ids(snapshot)
        /\ recent[4].id \in Ids(snapshot)
        /\ recent[2].id \notin Ids(snapshot)
\* A truncated operation is not in the log and not in a snapshot being sent.
NeverResurrected ==
    /\ [](discarded \cap Ids(room.operations) = {})
    /\ [][\A c \in Clients : \A m \in Sent(c) :
             m.type = "STATE_SYNC" => Ids(m.operations) \cap discarded' = {}]_vars

\* C3 as stated: commit X, commit Y, undo, commit Z leaves a snapshot with
\* X and Z, without Y, of exactly two more operations than before X.
C3_ScenarioTwoMore ==
    ScenarioDone =>
        /\ ScenarioShape
        /\ Len(GetStateSnapshot(room).operations) = recent[1].before + 2

\* C3 amended: commit X, commit Y, undo, commit Z leaves a snapshot with X
\* and Z, without Y, of two more operations than before X or of
\* MAX_OPERATIONS operations when that is less; and an operation discarded
\* by truncation never is in the log or in a snapshot sent afterwards.
C3_ScenarioUpToCap ==
    ScenarioDone =>
        /\ ScenarioShape
        /\ Len(GetStateSnapshot(room).operations)
              = Min(recent[1].before + 2, MAX_OPERATIONS)
C3_TruncationIsFinal == []C3_ScenarioUpToCap /\ NeverResurrected

\* C3 witness: the scenario ran on a log at its cap, Y was discarded.
C3_Witness ==
    /\ ScenarioDone
    /\ recent[2].id \in discarded
    /\ recent[1].before + 2 > MAX_OPERATIONS

\* C6: with -1 < p <= L-1, undo then redo brings the pointer back to p and
\* leaves the operations as they were.
C6_UndoRedoInverse ==
    /\ room.pointer > -1 => Redo(Undo(room)) = room
    /\ LET n == Len(recent)
       IN  (/\ n >= 2
            /\ recent[n - 1].kind = "undo"
            /\ recent[n].kind = "redo"
            /\ recent[n - 1].before > 0)
           => room.pointer + 1 = recent[n - 1].before

\* C6 witness: undo then redo just ran from a pointer behind the tail.
C6_Witness ==
    LET n == Len(recent)
    IN  /\ n >= 3
        /\ recent[n - 2].kind = "undo"
        /\ recent[n - 1].kind = "undo"
        /\ recent[n].kind = "redo"
        /\ recent[n - 1].before > 0
        /\ room.pointer = Len(room.operations) - 2

\* Nothing is in flight: every message sent so far was handled.
Quiescent ==
    /\ \A c \in Clients : outbox[c] = <<>>
    /\ \A c \in Clients : ~resync[c]
VisibleIds(ops, ptr) == [i \in 1..Min(ptr + 1, Len(ops)) |-> ops[i].id]

\* C9: in a quiescent state the mirror of every connected client has the
\* pointer of the server and shows the operations of the server snapshot.
C9_MirrorsAgreeWhenQuiescent ==
    Quiescent =>
        \A c \in room.users :
            /\ state[c].pointer = room.pointer
            /\ VisibleIds(state[c].operations, state[c].pointer)
                  = VisibleIds(room.operations, room.pointer)

\* C10: after a client handled a relayed UNDO{pointer} or REDO{pointer} its
\* pointer is the pointer the server announced.
C10_PointerFollowsAnnouncement ==
    [][\A c \in Clients :
          (/\ c \in room.users
           /\ c \in room'.users
           /\ outbox[c] # <<>>
           /\ outbox'[c] = Tail(outbox[c])
           /\ Head(outbox[c]).type \in {"UNDO", "REDO"})
          => state'[c].pointer = Head(outbox[c]).pointer]_vars

(* ---------------------- errors, frames and relays ---------------------- *)
\* The log part of the server state.
Log(r) == <<r.operations, r.pointer, r.sequenceCounter>>
\* The step put exactly m at the end of c's channel.
Got(c, m) == outbox'[c] = Append(outbox[c], m)
\* The step put nothing into c's channel.
GotNothing(c) == outbox'[c] = outbox[c]
ErrorMessage(reason) == [type |-> "ERROR", message |-> reason]

\* The server after a refused message of c: the log and the tables as they
\* were, the reason sent to c, nothing to anybody else.
RefusedWith(c, reason) ==
    /\ Log(room') = Log(room)
    /\ room'.users = room.users
    /\ activeStrokes' = activeStrokes
    /\ reason # ""
    /\ Got(c, ErrorMessage(reason))
    /\ \A d \in Clients \ {c} : GotNothing(d)

\* C11: a DRAW_START, DRAW_MOVE or DRAW_END that fails validation leaves
\* operations, pointer and sequence counter as they were, sends nothing to
\* the other participants and exactly one ERROR with the reason to the
\* sender.
C11_InvalidDrawChangesNothing ==
    [][/\ HandleDrawStart(Solo, WideStroke) => RefusedWith(Solo, "Invalid stroke width")
       /\ HandleDrawMove(Solo, OffCanvasStroke) => RefusedWith(Solo, "Invalid points batch")
       /\ HandleDrawEnd(Solo, OffCanvasStroke) => RefusedWith(Solo, "Invalid path")]_vars

\* C11 witness: a DRAW_END with a point off the canvas was refused while the
\* log held an operation and the other participant was listening.
C11_Witness ==
    /\ room.users = Pair
    /\ Len(room.operations) = 1
    /\ outbox[Solo] = <<ErrorMessage("Invalid path")>>
    /\ outbox[Peer] = <<>>
    /\ activeStrokes[Solo] # {}

\* The reasons the server gives.
Reasons ==
    {"Missing clientOperationId", "Invalid start point", "Invalid color", "Invalid tool",
     "Invalid stroke width", "Invalid points batch", "Invalid path",
     "Unsupported message type", "Unknown stroke reference", "Unknown message type",
     "Invalid message format"}

\* C12: whenever a connected participant sends a text that is not JSON, a
\* message of unknown type or one with a malformed payload (a stroke end or a
\* cursor position off the canvas), the server answers with an ERROR to the
\* sender, keeps the participant registered and keeps its state, so that the
\* next valid message is handled as it would have been before.
C12_MalformedGetsError ==
    Solo \in room.users =>
        /\ ENABLED (HandleUnknown(Solo, FALSE) /\ RefusedWith(Solo, "Invalid message format"))
        /\ ENABLED (HandleUnknown(Solo, TRUE) /\ RefusedWith(Solo, "Unknown message type"))
        /\ ENABLED (HandleDrawEnd(Solo, OffCanvasStroke) /\ RefusedWith(Solo, "Invalid path"))
        /\ ENABLED (/\ HandleCursorMove(Solo, <<50, MAX_COORDINATE + 1>>)
                    /\ \E reason \in Reasons : RefusedWith(Solo, reason))

\* The handlers that are no commit, undo or redo, for the messages SpecRelay
\* sends.
HandlesOther ==
    \/ \E c \in Pair : Connect(c) \/ Disconnect(c) \/ HandleStateSync(c)
    \/ \E data \in DrawStartInputs : HandleDrawStart(Solo, data)
    \/ \E data \in DrawMoveInputs : HandleDrawMove(Solo, data)
    \/ HandleCursorMove(Solo, <<50, 60>>)
    \/ \E wellFormed \in BOOLEAN : HandleUnknown(Solo, wellFormed)
    \/ HandleDrawEnd(Solo, OffCanvasStroke)
HandlesMutation ==
    \/ HandleDrawEnd(Solo, BrushStroke)
    \/ HandleClear(Solo)
    \/ \E t \in {"UNDO", "REDO"} : HandleUndoRedo(Solo, t)

\* C13: operations, pointer and sequence counter of the server change only
\* in a step that handles DRAW_END, CLEAR, UNDO or REDO; handling
\* DRAW_START, DRAW_MOVE, CURSOR_MOVE, STATE_SYNC, an unknown or invalid
\* message, a connect or a disconnect leaves all three as they were.
C13_LogChangesOnlyByMutators ==
    [][/\ HandlesOther => Log(room') = Log(room)
       /\ Log(room') # Log(room) => HandlesMutation]_vars

\* C13 witness: the listener left while the log held an operation below the
\* pointer and the sender had a stroke in flight.
C13_Witness ==
    /\ room.users = {Solo}
    /\ room.pointer = 0
    /\ activeStrokes[Solo] # {}
    /\ outbox[Solo] = <<[type |-> "USER_LEFT", user |-> Peer]>>

\* C14: a step that handles UNDO or REDO leaves the operations (content and
\* length) and the sequence counter as they were and moves only the pointer,
\* by one step within -1 .. length - 1.
C14_UndoRedoKeepHistory ==
    [][\A t \in {"UNDO", "REDO"} :
          HandleUndoRedo(Solo, t) =>
             /\ room'.operations = room.operations
             /\ room'.sequenceCounter = room.sequenceCounter
             /\ room'.users = room.users
             /\ room'.pointer =
                   IF t = "UNDO" THEN Max(-1, room.pointer - 1)
                   ELSE Min(Len(room.operations) - 1, room.pointer + 1)]_vars

\* C14 witness: every operation of a full log is undone and still there; the
\* UNDO that did it is on its way to the client.
C14_Witness ==
    /\ Len(room.operations) = MAX_OPERATIONS
    /\ room.pointer = -1
    /\ outbox[Solo] = <<[type |-> "UNDO", pointer |-> -1]>>

\* The clientOperationIds of a sequence of operations.
ClientOperationIds(ops) == {ops[i].clientOperationId : i \in 1..Len(ops)}
\* The operations the step added to the server log.
Gained == {room'.operations[i] : i \in 1..Len(room'.operations)}
             \ {room.operations[i] : i \in 1..Len(room.operations)}

\* C15: the stroke that was started and never ended is in no state of the
\* log, in no snapshot on its way and in no mirror; the close of a
\* connection with strokes in flight leaves the log as it was; and every
\* draw or erase operation the log gains is the operation of a validated
\* DRAW_END handled in that step.
C15_NoAbandonedInLog ==
    /\ AbandonedStroke.clientOperationId \notin ClientOperationIds(room.operations)
    /\ AbandonedStroke.clientOperationId \notin ClientOperationIds(state[Solo].operations)
    /\ \A i \in 1..Len(outbox[Solo]) :
          outbox[Solo][i].type = "STATE_SYNC" =>
             AbandonedStroke.clientOperationId
                \notin ClientOperationIds(outbox[Solo][i].operations)
C15_OnlyDrawEndCommits ==
    /\ []C15_NoAbandonedInLog
    /\ [][Disconnect(Solo) => Log(room') = Log(room)]_vars
    /\ [][\A operation \in Gained :
             operation.type \in {"draw", "erase"} =>
                \E data \in {BrushStroke, EraserStroke} :
                   /\ HandleDrawEnd(Solo, data)
                   /\ ValidateOperationPayload("DRAW_END", data).valid
                   /\ operation.id = idCounter
                   /\ operation.clientOperationId = data.clientOperationId
                   /\ operation.data.path = data.path]_vars

\* C15 witness: the connection closed with the abandoned stroke in its table
\* while the log held committed strokes.
C15_Witness ==
    /\ Solo \notin room.users
    /\ StrokesHas(activeStrokes[Solo], AbandonedStroke.clientOperationId)
    /\ Len(room.operations) = 2

Authors(ops) == [i \in 1..Len(ops) |-> ops[i].userId]

\* C16: with commits of two participants handled in any order and nothing
\* undone, the log holds the latest commits (all of them up to the cap), each
\* once, in the order the server handled them, with sequence numbers in that
\* order; and a commit handled right after another participant's leaves
\* that participant's operation in the log, directly before the new one.
C16_LogInHandlingOrder ==
    LET n == Len(room.operations)
    IN  /\ n = Min(idCounter, MAX_OPERATIONS)
        /\ \A i \in 1..n :
              /\ room.operations[i].id = idCounter - n + i - 1
              /\ room.operations[i].sequenceNumber = issued[idCounter - n + i]
        /\ \A i, j \in 1..n :
              i < j => room.operations[i].sequenceNumber
                          < room.operations[j].sequenceNumber
C16_NoCommitLost ==
    /\ []C16_LogInHandlingOrder
    /\ [][\A c \in Pair :
             (/\ HandleDrawEnd(c, BrushStroke) \/ HandleClear(c)
              /\ Len(room.operations) >= 1
              /\ LastOf(room.operations).userId # c)
             => LET n == Len(room'.operations)
                IN  /\ n >= 2
                    /\ room'.operations[n - 1] = LastOf(room.operations)
                    /\ room'.operations[n].userId = c
                    /\ room'.operations[n].id = idCounter
                    /\ room'.operations[n].sequenceNumber
                          > room'.operations[n - 1].sequenceNumber]_vars

\* C16 witness: the server handled c1, c2, c1: both orders of the two
\* participants are in one log.
C16_Witness ==
    /\ Authors(room.operations) = <<Solo, Peer, Solo>>
    /\ Seqs(room.operations) = <<0, 1, 2>>

\* The step sent m once to every open connection but c's, and nothing else.
RelayedToOthers(c, m) ==
    /\ GotNothing(c)
    /\ \A d \in room.users \ {c} : Got(d, m)
    /\ \A d \in Clients \ room.users : GotNothing(d)
\* The step sent m once to every open connection, and nothing else.
RelayedToAll(m) ==
    /\ \A d \in room.users : Got(d, m)
    /\ \A d \in Clients \ room.users : GotNothing(d)
\* The step committed an operation of the given type for c.
Committed(c, type) ==
    /\ Len(room'.operations) >= 1
    /\ LastOf(room'.operations).id = idCounter
    /\ LastOf(room'.operations).userId = c
    /\ LastOf(room'.operations).type = type
    /\ room'.pointer = Len(room'.operations) - 1
    /\ room'.sequenceCounter = room.sequenceCounter + 1

\* C17: an accepted DRAW_START or DRAW_MOVE goes once to every open
\* connection but the sender's and not to the sender; an accepted DRAW_END,
\* CLEAR, UNDO or REDO goes once to every open connection, the sender's
\* included, DRAW_END and CLEAR with the committed operation; a closed
\* connection gets nothing and the mutation happens all the same.
C17_RelayScoping ==
    [][/\ HandleDrawStart(Solo, BrushStroke)
            => RelayedToOthers(Solo,
                  [type |-> "DRAW_START", userId |-> Solo,
                   stroke |-> BuildStrokeMeta(BrushStroke, NoStroke),
                   point |-> BrushStroke.point])
       /\ \A data \in {BareMove, BrushStroke} :
            (/\ HandleDrawMove(Solo, data)
             /\ data = BareMove
                   => StrokesHas(activeStrokes[Solo], data.clientOperationId))
            => RelayedToOthers(Solo,
                  [type |-> "DRAW_MOVE", userId |-> Solo,
                   stroke |-> IF StrokesHas(activeStrokes[Solo], data.clientOperationId)
                              THEN StrokesGet(activeStrokes[Solo], data.clientOperationId)
                              ELSE BuildStrokeMeta(data, NoStroke),
                   points |-> data.points])
       /\ HandleDrawEnd(Solo, BrushStroke)
            => /\ Committed(Solo, "draw")
               /\ RelayedToAll(
                     [type |-> "DRAW_END", userId |-> Solo,
                      stroke |-> BuildStrokeMeta(BrushStroke, NoStroke),
                      operation |-> LastOf(room'.operations)])
       /\ HandleClear(Solo)
            => /\ Committed(Solo, "clear")
               /\ RelayedToAll(
                     [type |-> "CLEAR", userId |-> Solo, stroke |-> NoStroke,
                      operation |-> LastOf(room'.operations)])
       /\ \A t \in {"UNDO", "REDO"} :
            HandleUndoRedo(Solo, t)
            => RelayedToAll([type |-> t, pointer |-> room'.pointer])]_vars

\* C17 witness: the start of a stroke is on its way to the listener and not
\* to the sender.
C17_Witness ==
    /\ room.users = Pair
    /\ outbox[Solo] = <<>>
    /\ Len(outbox[Peer]) = 1
    /\ outbox[Peer][1].type = "DRAW_START"
    /\ outbox[Peer][1].userId = Solo

\* C18: no two connected participants hold the same display color, however
\* many connect and disconnect, also with more connections than colors.
C18_ColorsDistinct ==
    \A c, d \in room.users : c # d => user[c].color # user[d].color

\* C27: a DRAW_MOVE for a stroke the sender's own table does not hold is
\* refused with an error and not relayed when it lacks the color, the width
\* or the tool; with all three the server notes the stroke from the message
\* in the sender's table and relays the move.  What another connection noted
\* under the same clientOperationId does not count.
C27_Rehydrated(data) ==
    [clientOperationId |-> data.clientOperationId, color |-> data.color,
     width |-> data.width, tool |-> data.tool]
C27_UnknownStrokeReference ==
    [][\A c \in Pair, data \in ShareMoveInputs :
          (/\ HandleDrawMove(c, data)
           /\ ~StrokesHas(activeStrokes[c], data.clientOperationId))
          => IF data.color = <<>> \/ data.width = 0 \/ data.tool = ""
             THEN RefusedWith(c, "Unknown stroke reference")
             ELSE /\ activeStrokes' = [activeStrokes EXCEPT
                                          ![c] = @ \cup {C27_Rehydrated(data)}]
                  /\ Log(room') = Log(room)
                  /\ GotNothing(c)
                  /\ \A d \in room.users \ {c} :
                        Got(d, [type |-> "DRAW_MOVE", userId |-> c,
                                stroke |-> C27_Rehydrated(data),
                                points |-> data.points])]_vars

\* C27 witness: the second participant was refused a bare DRAW_MOVE for the
\* stroke that the first one's connection holds.
C27_Witness ==
    /\ room.users = Pair
    /\ activeStrokes[Solo] = {C27_Rehydrated(BrushStroke)}
    /\ activeStrokes[Peer] = {}
    /\ outbox[Peer] = <<ErrorMessage("Unknown stroke reference")>>
    /\ outbox[Solo] = <<>>

\* C28: when a client sends NAME_CHANGE with a name, every other open
\* connection receives the name change of that participant.
C28_NameChangeBroadcast ==
    [][\A c \in Pair, name \in Names :
          HandleNameChange(c, name)
          => \A d \in room.users \ {c} :
                Got(d, [type |-> "NAME_CHANGE", userId |-> c, name |-> name])]_vars

(* ----------------------------- validation ------------------------------ *)
\* A '#' followed by three or by six hexadecimal digits of either case.
C29_HexColor(color) ==
    \E n \in {3, 6} :
       /\ Len(color) = n + 1
       /\ color[1] = "#"
       /\ \A i \in 2..(n + 1) :
             color[i] \in {"0", "1", "2", "3", "4", "5", "6", "7", "8", "9",
                           "a", "b", "c", "d", "e", "f", "A", "B", "C", "D", "E", "F"}
C29_OnCanvas(point) ==
    /\ Len(point) = 2
    /\ \A i \in 1..2 : MIN_COORDINATE <= point[i] /\ point[i] <= MAX_COORDINATE
C29_Styled(data) ==
    /\ C29_HexColor(data.color)
    /\ data.tool \in {"brush", "eraser"}
    /\ data.width \in 1..20
C29_DrawEndAccepted(data) ==
    /\ data.clientOperationId # ""
    /\ data.path # <<>>
    /\ \A i \in 1..Len(data.path) : C29_OnCanvas(data.path[i])
    /\ C29_Styled(data)
C29_Returned == verdict.result # <<>>
C29_Result == verdict.result[1]
C29_DrawEndAndClear ==
    /\ verdict.type = "DRAW_END"
       => (C29_Result.valid <=> C29_DrawEndAccepted(verdict.data))
    /\ verdict.type = "CLEAR" => C29_Result.valid
    /\ ~C29_Result.valid => C29_Result.error # ""

C30_Snapshot(c) ==
    [type |-> "STATE_SYNC",
     operations |-> SubSeq(room.operations, 1, room.pointer + 1),
     pointer |-> room.pointer,
     users |-> room.users \cup {c}]
\* What the step put into c's channel belongs to the step: the operation it
\* committed, the pointer it set, the snapshot of the log it found.
C30_OfThisStep(m) ==
    CASE m.type \in {"DRAW_END", "CLEAR"} ->
            /\ room'.sequenceCounter = room.sequenceCounter + 1
            /\ m.operation = LastOf(room'.operations)
            /\ m.operation.sequenceNumber = room.sequenceCounter
      [] m.type \in {"UNDO", "REDO"} ->
            /\ m.pointer = room'.pointer
            /\ \E d \in Pair : HandleUndoRedo(d, m.type)
      [] OTHER -> m.type \in {"USER_JOINED", "USER_LEFT"}

\* C30: the first message of a connection is the STATE_SYNC snapshot of the
\* log at connect time; from then on the connection receives the broadcast
\* of every commit and of every UNDO and REDO the server processes, in the
\* step that processes it, and nothing that an earlier step produced.
C30_SnapshotThenStream ==
    [][\A c \in Pair :
          /\ (c \notin room.users /\ c \in room'.users)
             => outbox'[c] = <<C30_Snapshot(c)>>
          /\ (c \in room.users /\ c \in room'.users)
             => /\ room'.sequenceCounter # room.sequenceCounter
                   => /\ Len(outbox'[c]) = Len(outbox[c]) + 1
                      /\ LastOf(outbox'[c]).type \in {"DRAW_END", "CLEAR"}
                /\ \A d \in Pair, t \in {"UNDO", "REDO"} :
                      HandleUndoRedo(d, t)
                      => Got(c, [type |-> t, pointer |-> room'.pointer])
                /\ Len(outbox'[c]) > Len(outbox[c])
                   => /\ Got(c, LastOf(outbox'[c]))
                      /\ C30_OfThisStep(LastOf(outbox'[c]))]_vars

\* C30 witness: the second participant joined a log of one operation and
\* has, behind the snapshot, the commit that followed.
C30_Witness ==
    /\ room.users = Pair
    /\ Len(outbox[Peer]) = 2
    /\ outbox[Peer][1].type = "STATE_SYNC"
    /\ Len(outbox[Peer][1].operations) = 1
    /\ outbox[Peer][2].type \in {"DRAW_END", "CLEAR"}
    /\ outbox[Peer][2].operation.sequenceNumber = 1

(* ------------------------------- commits ------------------------------- *)
\* C32: a valid DRAW_END adds exactly one operation to the log: of the
\* sender, with the submitted path and clientOperationId, of kind erase
\* exactly when the tool is eraser and draw otherwise, with a number as
\* sequenceNumber; the sender and every peer receive that operation.
C32_DrawEndCommitsOne ==
    [][\A c \in Pair, data \in EndInputs :
          (HandleDrawEnd(c, data) /\ C29_DrawEndAccepted(data))
          => LET operation == LastOf(room'.operations)
             IN  /\ room'.operations # <<>>
                 /\ Ids(room'.operations) \ Ids(room.operations) = {operation.id}
                 /\ \A i \in 1..(Len(room'.operations) - 1) :
                       room'.operations[i].id # operation.id
                 /\ operation.userId = c
                 /\ operation.data.path = data.path
                 /\ operation.clientOperationId = data.clientOperationId
                 /\ operation.type = IF data.tool = "eraser" THEN "erase" ELSE "draw"
                 /\ operation.sequenceNumber \in Nat
                 /\ \A d \in room.users :
                       /\ Len(outbox'[d]) = Len(outbox[d]) + 1
                       /\ Got(d, LastOf(outbox'[d]))
                       /\ LastOf(outbox'[d]).type = "DRAW_END"
                       /\ LastOf(outbox'[d]).userId = c
                       /\ LastOf(outbox'[d]).operation = operation]_vars

\* C32 witness: the second participant's eraser stroke is the second
\* operation of the log and is in both channels.
C32_Witness ==
    /\ room.users = Pair
    /\ Len(room.operations) = 2
    /\ LastOf(room.operations).userId = Peer
    /\ LastOf(room.operations).type = "erase"
    /\ LastOf(room.operations).clientOperationId = "s1"
    /\ \A d \in Pair :
          /\ outbox[d] # <<>>
          /\ LastOf(outbox[d]).type = "DRAW_END"
          /\ LastOf(outbox[d]).operation = LastOf(room.operations)

\* What a CLEAR appends: one operation of kind clear with the next sequence
\* number, with the pointer on it.
C33_Appended ==
    LET operation == LastOf(room'.operations)
    IN  /\ room'.operations # <<>>
        /\ Ids(room'.operations) \ Ids(room.operations) = {operation.id}
        /\ operation.type = "clear"
        /\ operation.sequenceNumber =
              (IF issued = <<>> THEN 0 ELSE LastOf(issued) + 1)
        /\ room'.pointer = Len(room'.operations) - 1
\* The operations the cap drops when one more is appended behind the pointer.
C33_Trimmed == Max(0, room.pointer + 2 - MAX_OPERATIONS)

\* C33 as stated: handling CLEAR appends exactly one operation of kind clear
\* with the next sequence number and puts the pointer on it; every operation
\* at or before the previous pointer stays in the log; an UNDO right after
\* it yields the snapshot from before the CLEAR.
C33_AsStated ==
    [][HandleClear(Solo)
       => /\ C33_Appended
          /\ \A i \in 1..(room.pointer + 1) :
                room.operations[i].id \in Ids(room'.operations)
          /\ GetStateSnapshot(Undo(room')) = GetStateSnapshot(room)]_vars

\* C33, amended: as stated, except that when the visible log already holds
\* MAX_OPERATIONS operations the cap drops the oldest one, which then is
\* missing from the log and from the snapshot the UNDO yields.
C33_ClearIsLogged ==
    [][HandleClear(Solo)
       => /\ C33_Appended
          /\ \A i \in (C33_Trimmed + 1)..(room.pointer + 1) :
                room.operations[i].id \in Ids(room'.operations)
          /\ GetStateSnapshot(Undo(room')).pointer = room.pointer - C33_Trimmed
          /\ GetStateSnapshot(Undo(room')).operations =
                SubSeq(room.operations, C33_Trimmed + 1, room.pointer + 1)]_vars

\* C33 witness: a clear was appended behind two strokes and undone, and the
\* two strokes are what is visible.
C33_Witness ==
    /\ Len(room.operations) = 3
    /\ room.operations[1].type = "draw"
    /\ room.operations[2].type = "draw"
    /\ room.operations[3].type = "clear"
    /\ room.pointer = 1
    /\ outbox[Solo] # <<>>
    /\ LastOf(outbox[Solo]) = [type |-> "UNDO", pointer |-> 1]

\* C36: every stroke the client finalizes with a tool of its toolbar (brush,
\* eraser, line, rect, ellipse) passes the server's validation and is
\* committed to the log.
C36_FinalizedStrokeCommitted ==
    [][\A tool \in CLIENT_TOOLS :
          HandleDrawEnd(Solo, FinalizeStroke(tool))
          => /\ room'.sequenceCounter = room.sequenceCounter + 1
             /\ room'.operations # <<>>
             /\ LastOf(room'.operations).data.tool = tool
             /\ LastOf(room'.operations).data.path = FinalizeStroke(tool).path
             /\ Got(Solo, [type |-> "DRAW_END", userId |-> Solo,
                           stroke |-> [clientOperationId |-> "s1",
                                       color |-> BrushStroke.color,
                                       width |-> BrushStroke.width, tool |-> tool],
                           operation |-> LastOf(room'.operations)])]_vars

(* ------------------------------ the registry --------------------------- *)
\* The connections that were opened and not closed: those whose handler
\* holds a participant object.
C31_Open == {c \in Clients : user[c] # NoUser}

\* C31: the registry holds exactly the participants of the open connections;
\* a participant is registered before its snapshot is sent (the snapshot
\* lists it), every other open connection gets USER_JOINED on connect, and
\* every remaining one gets USER_LEFT on close.
C31_RegistryIsOpenConnections ==
    /\ [](room.users = C31_Open)
    /\ [][\A c \in Clients :
            /\ (user[c] = NoUser /\ user'[c] # NoUser)
               => /\ room'.users = room.users \cup {c}
                  /\ Len(outbox'[c]) = 1
                  /\ outbox'[c][1].type = "STATE_SYNC"
                  /\ outbox'[c][1].users = room.users \cup {c}
                  /\ \A d \in C31_Open :
                        Got(d, [type |-> "USER_JOINED", user |-> c])
            /\ (user[c] # NoUser /\ user'[c] = NoUser)
               => /\ room'.users = room.users \ {c}
                  /\ \A d \in C31_Open \ {c} :
                        Got(d, [type |-> "USER_LEFT", user |-> c])]_vars

\* C31 witness: three joined and the second left; the two that stay are
\* told of it and are the registry.
C31_Witness ==
    /\ room.users = {Solo, "c3"}
    /\ user[Peer] = NoUser
    /\ \A d \in {Solo, "c3"} :
          outbox[d] = <<[type |-> "USER_LEFT", user |-> Peer]>>

(* ------------------------------ the mirror ------------------------------ *)
\* C37: addOperation of an operation whose id is already in the mirror
\* replaces the entry at its index and leaves the length and the order of the
\* operations, the pointer, the table of staged entries and the checkpoints
\* as they were; no id is ever held twice.
C37_Held(operation) ==
    \E i \in 1..Len(state[Solo].operations) :
        state[Solo].operations[i].id = operation.id
C37_IndexOf(operation) ==
    CHOOSE i \in 1..Len(state[Solo].operations) :
        state[Solo].operations[i].id = operation.id
C37_NoIdTwice ==
    \A i, j \in 1..Len(state[Solo].operations) :
        state[Solo].operations[i].id = state[Solo].operations[j].id => i = j
C37_Replaces(operation, optimistic) ==
    (C37_Held(operation) /\ CallAddOperationOnCanvas(Solo, operation, optimistic))
    => /\ state'[Solo].operations =
             [state[Solo].operations EXCEPT ![C37_IndexOf(operation)] = operation]
       /\ state'[Solo].pointer = state[Solo].pointer
       /\ state'[Solo].optimisticOperations = state[Solo].optimisticOperations
       /\ canvas'[Solo].checkpoints = canvas[Solo].checkpoints
C37_AddOperationIdempotent ==
    /\ []C37_NoIdTwice
    /\ [][/\ \A operation \in RedeliverInputs : C37_Replaces(operation, FALSE)
          /\ \A n \in 1..MaxRedeliverStrokes : C37_Replaces(NthEntry(n), TRUE)]_vars
\* An operation was handed over again with other data while the pointer was
\* below the end, a staged entry and a checkpoint existed: it sits where it
\* sat and nothing else moved.
C37_Witness ==
    /\ Len(state[Solo].operations) = MAX_OPERATIONS
    /\ state[Solo].pointer < MAX_OPERATIONS - 1
    /\ state[Solo].optimisticOperations # {}
    /\ canvas[Solo].checkpoints # <<>>
    /\ \E i \in 1..Len(state[Solo].operations) :
          /\ state[Solo].operations[i].id > 0
          /\ state[Solo].operations[i].data.width = WideStroke.width

\* C34: after any sequence of addOperation (optimistic or not),
\* confirmOperation, setPointer and resetHistory the local pointer is within
\* -1 .. operations.length - 1 and the mirror holds at most MAX_OPERATIONS
\* operations.
C34_MirrorWithinBounds ==
    /\ state[Solo].pointer >= -1
    /\ state[Solo].pointer <= Len(state[Solo].operations) - 1
    /\ Len(state[Solo].operations) <= MAX_OPERATIONS

\* C19: after a client handled a STATE_SYNC its operations are the
\* snapshot's, in order, its pointer is the snapshot's and its table of
\* staged entries is empty, whatever the mirror held before.
C19_StateSyncReplacesMirror ==
    [][(/\ HandleMessage(Solo)
        /\ Head(outbox[Solo]).type = "STATE_SYNC")
       => /\ state'[Solo].operations = Head(outbox[Solo]).operations
          /\ state'[Solo].pointer = Head(outbox[Solo]).pointer
          /\ state'[Solo].optimisticOperations = {}]_vars

\* C19 witness: the mirror is the snapshot of a log with an undone
\* operation: it holds the operations up to the pointer and no staged entry,
\* and nothing is in flight.
C19_Witness ==
    /\ Solo \in room.users
    /\ outbox[Solo] = <<>>
    /\ ~resync[Solo]
    /\ room.pointer = 1
    /\ Len(room.operations) = 3
    /\ state[Solo].operations = Take(room.operations, 2)
    /\ state[Solo].pointer = 1
    /\ state[Solo].optimisticOperations = {}

\* C20: staging an entry whose id the mirror does not hold puts the entry at
\* the end of the operations and into the table under its clientOperationId,
\* and leaves the pointer on the operation it was on (at -1 when it was -1):
\* the pointer does not move forward and is not on the staged entry.
C20_StagingKeepsPointer ==
    [][\A entry \in StagedEntries :
          (/\ StageOptimistic(Solo, entry)
           /\ FindIndexById(state[Solo].operations, entry.id) = 0)
          => LET before == state[Solo]
                 after == state'[Solo]
             IN  /\ Len(after.operations) >= 1
                 /\ LastOf(after.operations) = entry
                 /\ entry \in after.optimisticOperations
                 /\ \A e \in after.optimisticOperations :
                       e.clientOperationId = entry.clientOperationId => e = entry
                 /\ after.pointer <= before.pointer
                 /\ after.pointer < Len(after.operations) - 1
                 /\ IF before.pointer = -1 THEN after.pointer = -1
                    ELSE /\ after.pointer >= 0
                         /\ after.operations[after.pointer + 1]
                               = before.operations[before.pointer + 1]]_vars

\* C20 witness: an entry staged on a full mirror: the oldest operation was
\* trimmed, the pointer is on the last confirmed operation, the entry after it.
C20_Witness ==
    LET st == state[Solo]
    IN  /\ Len(st.operations) = MAX_OPERATIONS
        /\ st.operations[1].id = 1
        /\ LastOf(st.operations) \in StagedEntries
        /\ LastOf(st.operations) \in st.optimisticOperations
        /\ st.pointer = MAX_OPERATIONS - 2
        /\ st.operations[st.pointer + 1].id = 2

\* The positions of the mirror's operations that carry a clientOperationId.
Carrying(ops, id) == {i \in 1..Len(ops) : ops[i].clientOperationId = id}
\* The position of the staged entry for a clientOperationId, 0 when none.
StagedIndex(ops, id) ==
    IF \E i \in Carrying(ops, id) : ops[i].sequenceNumber = -1
    THEN CHOOSE i \in Carrying(ops, id) : ops[i].sequenceNumber = -1
    ELSE 0

\* C21: when the committed operation of a staged entry arrives, it takes
\* the entry's place at the same index, the pointer moves to the end of the
\* mirror and the table no longer holds the clientOperationId; the mirror
\* never holds two entries for one clientOperationId.
C21_NoDuplicateEntries ==
    \A i, j \in 1..Len(state[Solo].operations) :
        (/\ i # j
         /\ state[Solo].operations[i].clientOperationId # "")
        => state[Solo].operations[i].clientOperationId
              # state[Solo].operations[j].clientOperationId
C21_ConfirmedInPlace ==
    /\ []C21_NoDuplicateEntries
    /\ [][(/\ HandleMessage(Solo)
           /\ Head(outbox[Solo]).type = "DRAW_END"
           /\ StagedIndex(state[Solo].operations,
                          Head(outbox[Solo]).operation.clientOperationId) # 0)
          => LET operation == Head(outbox[Solo]).operation
                 index == StagedIndex(state[Solo].operations,
                                      operation.clientOperationId)
                 after == state'[Solo]
             IN  /\ Len(after.operations) >= index
                 /\ after.operations[index] = operation
                 /\ after.pointer = Len(after.operations) - 1
                 /\ \A e \in after.optimisticOperations :
                       e.clientOperationId # operation.clientOperationId]_vars

(* ----------------------------- truncation ------------------------------ *)
\* C22: from the same (operations, pointer) with the pointer behind the
\* tail, the client's addOperation and the server's appendOperation of the
\* same new operation leave the same operations.
C22_TruncationSymmetric ==
    [][(/\ idCounter' = idCounter + 1
        /\ state[Solo].operations = room.operations
        /\ state[Solo].pointer = room.pointer
        /\ room.pointer < Len(room.operations) - 1)
       => state'[Solo].operations = room'.operations]_vars

\* C22 witness: both sides cut the same two operations and appended: the
\* staged preview left the client's pointer behind, the histories agree.
C22_Witness ==
    /\ state[Solo].operations = room.operations
    /\ Len(room.operations) = 2
    /\ room.operations[1].id = 0
    /\ room.operations[2].id = 3
    /\ room.pointer = 1
    /\ state[Solo].pointer = 0

(* ------------------------------ the canvas ----------------------------- *)
\* A full linear replay of operations[0..pointer] on an empty surface.
FullReplay(operations, pointer) == Replay(NewCanvas, operations, 0, pointer).surface

\* The step handles an UNDO or REDO that moves the mirror's pointer: the
\* 'pointerChanged' listener rebuilds the surface.
RebuildStep ==
    /\ HandleMessageOnCanvas(Solo)
    /\ Head(outbox[Solo]).type \in {"UNDO", "REDO"}
    /\ state'[Solo].pointer # state[Solo].pointer

\* C23: whatever commits, clears, undos, redos, truncations and trims came
\* before, a rebuild from the nearest checkpoint plus replay leaves on the
\* surface the operations, in the order, of a full replay of
\* operations[0..pointer] from an empty surface.
C23_RebuildEqualsFullReplay ==
    [][RebuildStep =>
          canvas'[Solo].surface
             = FullReplay(state'[Solo].operations, state'[Solo].pointer)]_vars

\* C24: getCheckpoint(targetPointer) returns the stored checkpoint with the
\* greatest position that is <= targetPointer, returns none exactly when no
\* stored checkpoint has a position <= targetPointer, and leaves the cache as
\* it was.
C24_Stored == {canvas[Solo].checkpoints[i] : i \in 1..Len(canvas[Solo].checkpoints)}
C24_NearestAtOrBefore ==
    \A targetPointer \in -1..(MaxCachePointer + 1) :
        LET found == GetCheckpoint(canvas[Solo].checkpoints, targetPointer)
            eligible == {checkpoint \in C24_Stored : checkpoint.pointer <= targetPointer}
        IN  /\ found = <<>> <=> eligible = {}
            /\ found # <<>> =>
                  /\ Len(found) = 1
                  /\ found[1] \in eligible
                  /\ \A checkpoint \in eligible : checkpoint.pointer <= found[1].pointer
C24_GetCheckpoint ==
    /\ []C24_NearestAtOrBefore
    /\ [][(\E value \in -1..(MAX_OPERATIONS - 1) : MovePointerOnCanvas(Solo, value))
            => canvas'[Solo].checkpoints = canvas[Solo].checkpoints]_vars

\* C24 witness: a cache of two checkpoints and a rebuild at a pointer
\* between them: the earlier one was restored and one stroke replayed.
C24_Witness ==
    /\ Len(state[Solo].operations) = 3
    /\ Len(canvas[Solo].checkpoints) = 2
    /\ canvas[Solo].checkpoints[1].pointer = 0
    /\ canvas[Solo].checkpoints[2].pointer = 2
    /\ state[Solo].pointer = 1
    /\ canvas[Solo].lastRenderedPointer = 1
    /\ canvas[Solo].surface = <<0, 1>>

\* The checkpoint a rebuild at the pointer restores: <<checkpoint>> or <<>>.
Restored(cv, pointer) == IF pointer < 0 THEN <<>> ELSE GetCheckpoint(cv.checkpoints, pointer)

\* C25: a rebuild never restores a checkpoint that is invalid for the
\* current history: its position is not beyond the pointer, its image holds
\* no operation of a truncated branch, and its position is that of the
\* operation its image was taken at, also after trims.
C25_RestoredCheckpointValid ==
    [][RebuildStep =>
          LET found == Restored(canvas[Solo], state'[Solo].pointer)
              operations == state'[Solo].operations
          IN  found # <<>> =>
                 /\ found[1].pointer <= state'[Solo].pointer
                 /\ \A i \in 1..Len(found[1].imageData) :
                       found[1].imageData[i] \notin discarded
                 /\ found[1].pointer + 1 <= Len(operations)
                 /\ found[1].imageData # <<>>
                 /\ operations[found[1].pointer + 1].id = LastOf(found[1].imageData)]_vars

\* The operations a rebuild at the pointer replays after what it restored.
ReplayCount(cv, pointer) ==
    IF pointer < 0 THEN 0
    ELSE IF Restored(cv, pointer) # <<>> THEN pointer - Restored(cv, pointer)[1].pointer
    ELSE pointer + 1

\* C26: every rebuild replays at most CHECKPOINT_INTERVAL operations,
\* however long the history and whatever clears, truncations and undos it
\* holds.
C26_ReplayBounded ==
    [][RebuildStep =>
          ReplayCount(canvas[Solo], state'[Solo].pointer) <= CHECKPOINT_INTERVAL]_vars

\* C35: every stored checkpoint is keyed by the index, in the current
\* operations array, of the last operation rendered into its image, when it
\* is saved and after every later trim.
C35_CheckpointKeyIsIndex ==
    \A i \in 1..Len(canvas[Solo].checkpoints) :
        LET checkpoint == canvas[Solo].checkpoints[i]
            operations == state[Solo].operations
        IN  /\ checkpoint.imageData # <<>>
            /\ checkpoint.pointer >= 0
            /\ checkpoint.pointer + 1 <= Len(operations)
            /\ operations[checkpoint.pointer + 1].id = LastOf(checkpoint.imageData)

(* ------------------------------ the socket ------------------------------ *)
C38_NotOpen ==
    \/ websocket.socket = 0
    \/ websocket.readyState[websocket.socket] # "OPEN"
C38_Transmitted == {websocket.transmitted[i].payload : i \in 1..Len(websocket.transmitted)}
C38_Queued == {websocket.outboundQueue[i] : i \in 1..Len(websocket.outboundQueue)}
\* Every message handed to send is in the queue or was transmitted, never
\* both and never twice.
C38_OnceEach ==
    /\ C38_Transmitted \cap C38_Queued = {}
    /\ Cardinality(C38_Transmitted) = Len(websocket.transmitted)
    /\ Cardinality(C38_Queued) = Len(websocket.outboundQueue)
    /\ {m.serial : m \in C38_Transmitted \cup C38_Queued} = 1..websocket.sends
\* C38: a message sent while the socket is not open goes to the end of the
\* queue; when a socket opens, the queued messages are transmitted on it in
\* their order, each once, then the STATE_SYNC request, and the queue is
\* empty; no message is ever both transmitted and queued.
C38_QueueFlushedOnOpen ==
    /\ []C38_OnceEach
    /\ [][\A type \in {"DRAW_END", "UNDO"} :
             (C38_NotOpen /\ CallSend(type))
             => /\ websocket'.transmitted = websocket.transmitted
                /\ websocket'.outboundQueue =
                      Append(websocket.outboundQueue,
                             [type |-> type, serial |-> websocket.sends + 1])]_vars
    /\ [][\A s \in 1..MaxSockets :
             SocketOpens(s)
             => /\ websocket'.outboundQueue = <<>>
                /\ websocket'.transmitted =
                      websocket.transmitted
                      \o [i \in 1..Len(websocket.outboundQueue) |->
                             [socket |-> s, payload |-> websocket.outboundQueue[i]]]
                      \o << [socket |-> s,
                             payload |-> [type |-> "STATE_SYNC",
                                          serial |-> websocket.sends + 1]] >>]_vars
\* Two messages sent while the connection was down were the first that the
\* second socket or a later one transmitted, in the order they were sent, and
\* the STATE_SYNC request followed them.
C38_Witness ==
    /\ websocket.outboundQueue = <<>>
    /\ \E i \in 1..(Len(websocket.transmitted) - 2) :
          /\ websocket.transmitted[i].socket > 1
          /\ i > 1 => websocket.transmitted[i - 1].socket # websocket.transmitted[i].socket
          /\ websocket.transmitted[i + 1].socket = websocket.transmitted[i].socket
          /\ websocket.transmitted[i + 2].socket = websocket.transmitted[i].socket
          /\ websocket.transmitted[i].payload.type # "STATE_SYNC"
          /\ websocket.transmitted[i + 1].payload.type # "STATE_SYNC"
          /\ websocket.transmitted[i].payload.serial
                < websocket.transmitted[i + 1].payload.serial
          /\ websocket.transmitted[i + 2].payload.type = "STATE_SYNC"

C39_Connecting ==
    {s \in 1..Len(websocket.readyState) : websocket.readyState[s] = "CONNECTING"}
\* At most one socket is connecting or one reconnect is pending, no wait is
\* above 30000 ms and the wait of the next attempt is not below this one's.
C39_OneAttempt ==
    /\ Cardinality(C39_Connecting) + Len(websocket.timers) <= 1
    /\ \A i \in 1..Len(websocket.timers) : websocket.timers[i] <= 30000
    /\ BACKOFF_STEPS[Min(websocket.reconnectAttempt, 5) + 1]
          <= BACKOFF_STEPS[Min(websocket.reconnectAttempt + 1, 5) + 1]
\* C39: every close of a socket sets exactly one timer, whose wait is
\* BACKOFF_STEPS[min(n, 5)] for the attempt counter n, and counts the attempt;
\* the waits do not decrease with n and none is above 30000 ms; at most one
\* socket is connecting or one reconnect pending; an open puts the counter
\* back to 0.
C39_Reconnection ==
    /\ []C39_OneAttempt
    /\ [][\A s \in 1..MaxReconnectSockets :
             SocketCloses(s)
             => /\ websocket'.timers =
                      Append(websocket.timers,
                             BACKOFF_STEPS[Min(websocket.reconnectAttempt, 5) + 1])
                /\ websocket'.reconnectAttempt = websocket.reconnectAttempt + 1]_vars
    /\ [][\A s \in 1..MaxReconnectSockets :
             SocketOpens(s) => websocket'.reconnectAttempt = 0]_vars
    /\ [][websocket'.timers # websocket.timers
          => \/ \E s \in 1..MaxReconnectSockets : SocketCloses(s)
             \/ \E i \in 1..MaxReconnectSockets : TimerFires(i)]_vars
\* After more failed attempts than BACKOFF_STEPS has steps the wait is the
\* last step.
C39_Witness ==
    /\ websocket.reconnectAttempt > Len(BACKOFF_STEPS)
    /\ websocket.timers = <<30000>>
====
